---- MODULE Spec2Model ----
(***************************************************************************)
(* The AI telemetry processor: the per-signal pipelines (traces, logs),    *)
(* the sampling pass that rebuilds a trace batch, and the worker pool that *)
(* fans per-item enrichment out and joins it before sampling.              *)
(*                                                                         *)
(* Rates and importances are fixed-point numbers in sixteenths (16 = 1.0), *)
(* a product of two of them is in 256ths.  An attribute-map hash is        *)
(* modelled by the byte stream FNV-1a is fed: two maps with the same       *)
(* stream have the same hash.                                              *)
(***************************************************************************)
EXTENDS Integers, Sequences, FiniteSets, TLC

\* ------------------------------------------------------------------ bounds
MaxSpans == 2
MaxWorkers == 2
MaxTasks == 3
BurstTasks == 12
MaxCallers == 2
MaxCalls == 2
MaxReloads == 1
CacheTTL == 1
TimeoutTicks == 1
MaxNow == 2
ModelCacheSize == 1
MaxConversions == 3

\* ------------------------------------------------------- program constants
DefaultWorkers == 8
QueueFactor == 10
SeverityNumberError == 17
NanosPerMilli == 1000000
RateOne == 16

\* ------------------------------------------------------------- attributes
Str(s) == [t |-> "str", v |-> s]
Float(s) == [t |-> "float", v |-> s]
Arr(s) == [t |-> "arr", v |-> s]

ScalarTypes == {"str", "bool", "int", "float"}

\* common.SetAttribute: a value of a type the switch does not list is not written
SetAttribute(attributes, key, value) ==
    IF value.t \in ScalarTypes
    THEN [x \in DOMAIN attributes \cup {key} |-> IF x = key THEN value ELSE attributes[x]]
    ELSE attributes

RECURSIVE WriteResult(_, _, _, _)
\* for k, v := range result { setAttribute(attrs, namespace + k, v) }
WriteResult(attributes, result, keys, ns) ==
    IF keys = {} THEN attributes
    ELSE LET k == CHOOSE x \in keys : TRUE
         IN WriteResult(SetAttribute(attributes, ns \o k, result[k]), result, keys \ {k}, ns)

\* Keys in sort.Strings order
AllKeys == <<"a", "ab">>

RECURSIVE HashStream(_, _)
HashStream(m, i) ==
    IF i > Len(AllKeys) THEN ""
    ELSE IF AllKeys[i] \in DOMAIN m
         THEN (AllKeys[i] \o m[AllKeys[i]]) \o HashStream(m, i + 1)
         ELSE HashStream(m, i + 1)

\* common.CalculateAttributeMapHash over string-valued attributes
CalculateAttributeMapHash(m) == HashStream(m, 1)

CalculateResourceHash(r) == CalculateAttributeMapHash(r)

\* common.ResourcesEqual: equality of the (cached) hashes
ResourcesEqual(r1, r2) == CalculateResourceHash(r1) = CalculateResourceHash(r2)

\* ------------------------------------------------------------ module results
ClassifierOutput == [category |-> Str("database_error"), confidence |-> Float("0.85")]
ExtractorOutput == [services |-> Arr("[db]"), confidence |-> Float("0.9")]

NoCall == [st |-> "none"]
Failed == [st |-> "err"]
Succeeded == [st |-> "ok"]

SamplerOutputs ==
    { [hasImportance |-> TRUE, importance |-> 0, keep |-> FALSE],
      [hasImportance |-> TRUE, importance |-> 4, keep |-> FALSE],
      [hasImportance |-> TRUE, importance |-> 16, keep |-> TRUE],
      [hasImportance |-> FALSE, importance |-> 0, keep |-> TRUE] }

NoSample == [st |-> "none", hasImportance |-> FALSE, importance |-> 0, keep |-> FALSE]
SampleFailed == [st |-> "err", hasImportance |-> FALSE, importance |-> 0, keep |-> FALSE]
SampleOk(o) == [st |-> "ok", hasImportance |-> o.hasImportance,
                importance |-> o.importance, keep |-> o.keep]

\* rand.Float64() in sixteenths
Draws == {1, 9}

\* common.RandomSample(rate) with rate = num/den and the draw r
RandomSample(num, den, r) ==
    IF num >= den THEN TRUE
    ELSE IF num <= 0 THEN FALSE
    ELSE r * den < num * RateOne

\* does RandomSample consult the generator for this rate?
NeedsDraw(num, den) == num < den /\ num > 0

\* ------------------------------------------------------------ input batches
\* Resource attribute maps: RA and RC differ but feed FNV-1a the same bytes
RA == [a |-> "bc"]
RC == [ab |-> "c"]
RB == [a |-> "bd"]
S1 == [name |-> "lib", version |-> "1"]
S2 == [name |-> "lib", version |-> "2"]

\* The (ResourceSpans, ScopeSpans) positions a batch may use, in batch order;
\* the ResourceSpans 1 and 2 carry equal resources
SlotTable ==
    << [rs |-> 1, ss |-> 1, resource |-> RA, scope |-> S1],
       [rs |-> 1, ss |-> 2, resource |-> RA, scope |-> S2],
       [rs |-> 2, ss |-> 1, resource |-> RA, scope |-> S1],
       [rs |-> 3, ss |-> 1, resource |-> RC, scope |-> S1],
       [rs |-> 4, ss |-> 1, resource |-> RB, scope |-> S1] >>

Layouts(n) ==
    { f \in [1..n -> 1..Len(SlotTable)] : \A i \in 1..n : \A j \in i..n : f[i] <= f[j] }

SpanKinds == [status : {"Ok", "Error"}, endNs : {500999999, 501000000}]
PlainSpan == [status |-> "Ok", endNs |-> 500999999]
LogKinds == {9, 17}

\* what an item carries on entry: one key is also a key the models answer with
InitialAttributes == [method |-> Str("GET"), category |-> Str("http")]

MakeSpan(slot, kind) ==
    [rs |-> SlotTable[slot].rs, ss |-> SlotTable[slot].ss,
     resource |-> SlotTable[slot].resource, scope |-> SlotTable[slot].scope,
     status |-> kind.status, severity |-> 0, startNs |-> 0, endNs |-> kind.endNs,
     mtype |-> "None"]

MakeLog(slot, sev) ==
    [rs |-> SlotTable[slot].rs, ss |-> SlotTable[slot].ss,
     resource |-> SlotTable[slot].resource, scope |-> SlotTable[slot].scope,
     status |-> "Unset", severity |-> sev, startNs |-> 0, endNs |-> 0,
     mtype |-> "None"]

\* a metric of the given type with one data point
MetricKinds == {"Gauge", "Histogram"}

MakeMetric(slot, mtype) ==
    [rs |-> SlotTable[slot].rs, ss |-> SlotTable[slot].ss,
     resource |-> SlotTable[slot].resource, scope |-> SlotTable[slot].scope,
     status |-> "Unset", severity |-> 0, startNs |-> 0, endNs |-> 0,
     mtype |-> mtype]

\* every layout, plain spans
GroupedTraceBatches ==
    UNION { { [i \in 1..n |-> MakeSpan(f[i], PlainSpan)] : f \in Layouts(n) } : n \in 1..MaxSpans }

\* one (resource, scope) group, every kind of span
SingleGroupTraceBatches ==
    UNION { { [i \in 1..n |-> MakeSpan(1, k[i])] : k \in [1..n -> SpanKinds] } : n \in 1..MaxSpans }

SingleGroupLogBatches ==
    UNION { { [i \in 1..n |-> MakeLog(1, k[i])] : k \in [1..n -> LogKinds] } : n \in 1..MaxSpans }

SingleGroupMetricBatches ==
    UNION { { [i \in 1..n |-> MakeMetric(1, k[i])] : k \in [1..n -> MetricKinds] } : n \in 1..MaxSpans }

\* ------------------------------------------------------------ configurations
Config(signal, ec, ss, ee, cl, par, workers, errorEvents, slowSpans, normalSpans) ==
    [signal |-> signal,
     ErrorClassification |-> ec, SmartSampling |-> ss, EntityExtraction |-> ee,
     ContextLinking |-> cl,
     EnableParallelProcessing |-> par, MaxParallelWorkers |-> workers,
     ErrorEvents |-> errorEvents, SlowSpans |-> slowSpans, NormalSpans |-> normalSpans,
     ThresholdMs |-> 500, AttributeNamespace |-> "ai."]

Modes == {<<FALSE, 0>>} \cup {<<TRUE, w>> : w \in 1..MaxWorkers}

\* sampling on, serial, every rate
SamplingConfigs ==
    { Config("traces", ec, TRUE, ee, FALSE, FALSE, 0, e, s, n) :
        ec \in BOOLEAN, ee \in BOOLEAN, e \in {8, 16}, s \in {8, 16}, n \in {0, 8, 16} }

\* sampling on, parallel
ParallelSamplingConfigs ==
    { Config("traces", ec, TRUE, ee, FALSE, TRUE, w, 16, 16, 8) :
        ec \in BOOLEAN, ee \in BOOLEAN, w \in 1..MaxWorkers }

\* sampling off
EnrichmentConfigs ==
    { Config("traces", ec, FALSE, ee, cl, m[1], m[2], 16, 16, 8) :
        ec \in BOOLEAN, ee \in BOOLEAN, cl \in BOOLEAN, m \in Modes }

LogConfigs ==
    { Config("logs", ec, ss, ee, FALSE, m[1], m[2], 16, 16, 8) :
        ec \in BOOLEAN, ss \in BOOLEAN, ee \in BOOLEAN, m \in Modes }

MetricConfigs ==
    { Config("metrics", FALSE, ss, ee, FALSE, m[1], m[2], 16, 16, 8) :
        ss \in BOOLEAN, ee \in BOOLEAN, m \in Modes }

GroupingConfigs ==
    { Config("traces", FALSE, TRUE, FALSE, FALSE, m[1], m[2], 16, 16, 8) : m \in Modes }
    \cup { Config("traces", FALSE, FALSE, TRUE, FALSE, m[1], m[2], 16, 16, 8) : m \in Modes }

\* max_parallel_workers <= 0: the default number of workers
DefaultPoolConfigs ==
    { Config("traces", TRUE, TRUE, TRUE, FALSE, TRUE, 0, 16, 16, 8) }

Scenarios ==
    ((SamplingConfigs \cup ParallelSamplingConfigs \cup EnrichmentConfigs)
        \X SingleGroupTraceBatches)
    \cup (LogConfigs \X SingleGroupLogBatches)
    \cup (MetricConfigs \X SingleGroupMetricBatches)
    \cup (GroupingConfigs \X GroupedTraceBatches)
    \cup (DefaultPoolConfigs \X { <<MakeSpan(1, [status |-> "Error", endNs |-> 500999999])>> })

\* ------------------------------------------------------------------- state
VARIABLES
    cfg,        \* the processor's configuration
    td,         \* the batch handed to Consume*
    attrs,      \* the attribute map of each item of td, enriched in place
    pc,         \* where the Consume* call is
    pos,        \* the item the driver loop is at
    sampled,    \* sampleTraces: the batch being rebuilt
    forwarded,  \* the batches the next consumer has received
    ret,        \* what Consume* returned
    pool,       \* the worker pool of this call: numWorkers, taskChan, wg, closed
    worker,     \* per worker goroutine: its position and its task
    clsCall, extCall, samCall,  \* per item: the outcome of each runtime call made for it
    rnd,        \* per item: the draws RandomSample took for it
    verdict,    \* per item: makeSamplingDecision's result
    hist,       \* pool bookkeeping: tasks submitted, run, called back, done, waits returned
    ctxErr,     \* ctx.Err() of the context handed to Consume*
    rt          \* the WASM runtime: instances, mutex, result caches, calls in flight

vars == <<cfg, td, attrs, pc, pos, sampled, forwarded, ret, pool, worker,
          clsCall, extCall, samCall, rnd, verdict, hist, ctxErr, rt>>

N == Len(td)
Ids == 1..N

NoPool == [numWorkers |-> 0, capacity |-> 0, taskChan |-> <<>>, wg |-> 0,
           created |-> FALSE, closed |-> FALSE]
NoHist == [submitted |-> {}, withCallback |-> {}, fnReturned |-> {}, cbRan |-> {},
           done |-> {}, waits |-> <<>>, pending |-> [id |-> 0, item |-> 0, callback |-> FALSE]]

\* the runtime of a processor whose calls are not followed step by step
NoRuntime == [impl |-> "none"]

\* the context of the Consume* call: live, or cancelled before the call
Contexts == {"nil", "Canceled"}
ContextsFor(c) ==
    IF c.signal = "traces" /\ c.EnableParallelProcessing THEN Contexts ELSE {"nil"}

InitWith(c, batch, cx) ==
    /\ ctxErr = cx
    /\ rt = NoRuntime
    /\ cfg = c
    /\ td = batch
    /\ attrs = [i \in 1..Len(batch) |-> InitialAttributes]
    /\ pc = "idle"
    /\ pos = 1
    /\ sampled = <<>>
    /\ forwarded = <<>>
    /\ ret = "none"
    /\ pool = NoPool
    /\ worker = <<>>
    /\ clsCall = [i \in 1..Len(batch) |-> NoCall]
    /\ extCall = [i \in 1..Len(batch) |-> NoCall]
    /\ samCall = [i \in 1..Len(batch) |-> NoSample]
    /\ rnd = [i \in 1..Len(batch) |-> <<>>]
    /\ verdict = [i \in 1..Len(batch) |-> "none"]
    /\ hist = NoHist

Init == \E sc \in Scenarios : \E cx \in ContextsFor(sc[1]) : InitWith(sc[1], sc[2], cx)

\* ------------------------------------------------------- per-item enrichment
classifyErrorMarksFailure(c, attributes, outcome) ==
    IF outcome.st = "ok"
    THEN WriteResult(attributes, ClassifierOutput, DOMAIN ClassifierOutput, c.AttributeNamespace)
    ELSE SetAttribute(attributes, c.AttributeNamespace \o "error", Str("failed"))
classifyErrorNoNamespace(c, attributes, outcome) ==
    IF outcome.st = "ok"
    THEN WriteResult(attributes, ClassifierOutput, DOMAIN ClassifierOutput, "")
    ELSE attributes

\* classifyError / extractEntities (and the log twins): on an inference error
\* the item is left as it is, on success every key of the result is written
classifyError(c, attributes, outcome) ==
    IF outcome.st = "ok"
    THEN WriteResult(attributes, ClassifierOutput, DOMAIN ClassifierOutput, c.AttributeNamespace)
    ELSE attributes

extractEntities(c, attributes, outcome) ==
    IF outcome.st = "ok"
    THEN WriteResult(attributes, ExtractorOutput, DOMAIN ExtractorOutput, c.AttributeNamespace)
    ELSE attributes

IsErrorItem(c, it) ==
    IF c.signal = "traces" THEN it.status = "Error"
    ELSE IF c.signal = "logs" THEN it.severity >= SeverityNumberError
    ELSE FALSE

\* processMetric reaches processDataPoint for gauges and sums only
HasNumberDataPoints(it) == it.mtype \in {"Gauge", "Sum"}

ClassifierCalledOnAnyItem(c, it) == c.ErrorClassification

ClassifierCalled(c, it) == IsErrorItem(c, it) /\ c.ErrorClassification
ExtractorCalled(c, it) ==
    c.EntityExtraction /\ (c.signal = "metrics" => HasNumberDataPoints(it))

processSpanReturnsOnError(c, it, attributes, co, eo) ==
    IF it.status = "Error" /\ c.ErrorClassification /\ co.st = "err" THEN attributes
    ELSE LET a1 == IF it.status = "Error" /\ c.ErrorClassification
                   THEN WriteResult(attributes, ClassifierOutput, DOMAIN ClassifierOutput,
                                    c.AttributeNamespace)
                   ELSE attributes
         IN IF c.EntityExtraction /\ eo.st = "ok"
            THEN WriteResult(a1, ExtractorOutput, DOMAIN ExtractorOutput, c.AttributeNamespace)
            ELSE a1

\* processSpan: classification of an ERROR span, then entity extraction
processSpan(c, it, attributes, co, eo) ==
    LET a1 == IF it.status = "Error"
              THEN (IF c.ErrorClassification THEN classifyError(c, attributes, co) ELSE attributes)
              ELSE attributes
    IN IF c.EntityExtraction THEN extractEntities(c, a1, eo) ELSE a1

\* processLogRecord
processLogRecord(c, it, attributes, co, eo) ==
    LET a1 == IF c.ErrorClassification /\ it.severity >= SeverityNumberError
              THEN classifyError(c, attributes, co)
              ELSE attributes
    IN IF c.EntityExtraction THEN extractEntities(c, a1, eo) ELSE a1

\* processMetric / processDataPoint: entity extraction on the data point of a
\* gauge or a sum; no classification and no sampling
processMetric(c, it, attributes, eo) ==
    IF HasNumberDataPoints(it)
    THEN (IF c.EntityExtraction THEN extractEntities(c, attributes, eo) ELSE attributes)
    ELSE attributes

ProcessItem(c, it, attributes, co, eo) ==
    IF c.signal = "traces" THEN processSpan(c, it, attributes, co, eo)
    ELSE IF c.signal = "logs" THEN processLogRecord(c, it, attributes, co, eo)
    ELSE processMetric(c, it, attributes, eo)

\* what the runtime may answer to the calls made for an item
ClassifierOutcomes(c, it) == IF ClassifierCalled(c, it) THEN {Failed, Succeeded} ELSE {NoCall}
ExtractorOutcomes(c, it) == IF ExtractorCalled(c, it) THEN {Failed, Succeeded} ELSE {NoCall}

\* one call of the per-item processor, in the driver (serial) or in a worker
EnrichItem(i, co, eo) ==
    /\ attrs' = [attrs EXCEPT ![i] = ProcessItem(cfg, td[i], attrs[i], co, eo)]
    /\ clsCall' = [clsCall EXCEPT ![i] = co]
    /\ extCall' = [extCall EXCEPT ![i] = eo]

\* ------------------------------------------------------------- sampling pass
DurationMs(it) == (it.endNs - it.startNs) \div NanosPerMilli

KeptByErrorRule(c, it) == it.status = "Error" /\ c.ErrorEvents >= RateOne
KeptBySlowRule(c, it) == DurationMs(it) > c.ThresholdMs /\ c.SlowSpans >= RateOne
SamplerCalled(c, it) == ~KeptByErrorRule(c, it) /\ ~KeptBySlowRule(c, it)

\* the rate handed to randomSample, as <<numerator, denominator>>
SampleRate(c, so) ==
    IF so.st = "err" THEN <<c.NormalSpans, RateOne>>
    ELSE IF ~so.hasImportance THEN <<c.NormalSpans, RateOne>>
    ELSE <<c.NormalSpans * so.importance, RateOne * RateOne>>

makeSamplingDecisionNoErrorRule(c, it, so, r) ==
    IF DurationMs(it) > c.ThresholdMs /\ c.SlowSpans >= RateOne THEN TRUE
    ELSE RandomSample(SampleRate(c, so)[1], SampleRate(c, so)[2], r)

makeSamplingDecisionFailKeeps(c, it, so, r) ==
    IF it.status = "Error" /\ c.ErrorEvents >= RateOne THEN TRUE
    ELSE IF DurationMs(it) > c.ThresholdMs /\ c.SlowSpans >= RateOne THEN TRUE
    ELSE IF so.st = "err" THEN TRUE
    ELSE RandomSample(SampleRate(c, so)[1], SampleRate(c, so)[2], r)

makeSamplingDecisionIgnoresImportance(c, it, so, r) ==
    IF it.status = "Error" /\ c.ErrorEvents >= RateOne THEN TRUE
    ELSE IF DurationMs(it) > c.ThresholdMs /\ c.SlowSpans >= RateOne THEN TRUE
    ELSE RandomSample(c.NormalSpans, RateOne, r)
makeSamplingDecisionNoSlowRule(c, it, so, r) ==
    IF it.status = "Error" /\ c.ErrorEvents >= RateOne THEN TRUE
    ELSE IF so.st \in {"err", "none"} THEN RandomSample(c.NormalSpans, RateOne, r)
    ELSE IF ~so.hasImportance THEN RandomSample(c.NormalSpans, RateOne, r)
    ELSE RandomSample(c.NormalSpans * so.importance, RateOne * RateOne, r)

makeSamplingDecision(c, it, so, r) ==
    IF it.status = "Error" /\ c.ErrorEvents >= RateOne THEN TRUE
    ELSE IF DurationMs(it) > c.ThresholdMs /\ c.SlowSpans >= RateOne THEN TRUE
    ELSE IF so.st = "err" THEN RandomSample(c.NormalSpans, RateOne, r)
    ELSE IF ~so.hasImportance THEN RandomSample(c.NormalSpans, RateOne, r)
    ELSE RandomSample(c.NormalSpans * so.importance, RateOne * RateOne, r)

SamplerOutcomes(c, it) ==
    IF SamplerCalled(c, it) THEN {SampleFailed} \cup {SampleOk(o) : o \in SamplerOutputs}
    ELSE {NoSample}

DrawsFor(c, it, so) ==
    IF SamplerCalled(c, it) /\ NeedsDraw(SampleRate(c, so)[1], SampleRate(c, so)[2])
    THEN {<<r>> : r \in Draws}
    ELSE {<<>>}

DrawOf(rs) == IF rs = <<>> THEN 0 ELSE rs[1]

\* rss.At(i) of the first ResourceSpans whose resource equals the given one,
\* 0 when the loop of GetOrCreateTraceResource finds none
RECURSIVE FindResource(_, _, _)
FindResource(traces, resource, i) ==
    IF i > Len(traces) THEN 0
    ELSE IF ResourcesEqual(traces[i].resource, resource) THEN i
    ELSE FindResource(traces, resource, i + 1)

\* the same loop of GetOrCreateScope, on (name, version)
RECURSIVE FindScope(_, _, _)
FindScope(scopes, scope, i) ==
    IF i > Len(scopes) THEN 0
    ELSE IF scopes[i].scope.name = scope.name /\ scopes[i].scope.version = scope.version THEN i
    ELSE FindScope(scopes, scope, i + 1)

\* common.GetOrCreateTraceResource: the matching ResourceSpans of traces,
\* appended first when there is none
ResourceIndex(traces, resource) ==
    IF FindResource(traces, resource, 1) = 0 THEN Len(traces) + 1
    ELSE FindResource(traces, resource, 1)

GetOrCreateTraceResource(traces, resource) ==
    IF FindResource(traces, resource, 1) = 0
    THEN Append(traces, [resource |-> resource, scopes |-> <<>>])
    ELSE traces

\* common.GetOrCreateScope, on the ScopeSpans of one ResourceSpans
ScopeIndex(scopes, scope) ==
    IF FindScope(scopes, scope, 1) = 0 THEN Len(scopes) + 1
    ELSE FindScope(scopes, scope, 1)

GetOrCreateScope(scopes, scope) ==
    IF FindScope(scopes, scope, 1) = 0
    THEN Append(scopes, [scope |-> scope, spans |-> <<>>])
    ELSE scopes

AppendKeptFirst(traces, it, span) ==
    LET t1 == GetOrCreateTraceResource(traces, it.resource)
        ri == ResourceIndex(traces, it.resource)
        s1 == GetOrCreateScope(t1[ri].scopes, it.scope)
        si == ScopeIndex(t1[ri].scopes, it.scope)
    IN [t1 EXCEPT ![ri].scopes = [s1 EXCEPT ![si].spans = <<span>> \o @]]

AppendKeptTwice(traces, it, span) ==
    LET t1 == GetOrCreateTraceResource(traces, it.resource)
        ri == ResourceIndex(traces, it.resource)
        s1 == GetOrCreateScope(t1[ri].scopes, it.scope)
        si == ScopeIndex(t1[ri].scopes, it.scope)
    IN [t1 EXCEPT ![ri].scopes = [s1 EXCEPT ![si].spans = Append(Append(@, span), span)]]

\* the body of sampleTraces for a kept span: newSS.Spans().AppendEmpty(), CopyTo
AppendKept(traces, it, span) ==
    LET t1 == GetOrCreateTraceResource(traces, it.resource)
        ri == ResourceIndex(traces, it.resource)
        s1 == GetOrCreateScope(t1[ri].scopes, it.scope)
        si == ScopeIndex(t1[ri].scopes, it.scope)
    IN [t1 EXCEPT ![ri].scopes = [s1 EXCEPT ![si].spans = Append(@, span)]]

\* the batch td as the tree it is: ResourceSpans -> ScopeSpans -> items, each
\* item with its attribute map
RECURSIVE TreeFrom(_, _, _, _)
TreeFrom(batch, attributes, i, tree) ==
    IF i > Len(batch) THEN tree
    ELSE LET it == batch[i]
             span == [id |-> i, attrs |-> attributes[i]]
             newRs == i = 1 \/ batch[i - 1].rs # it.rs
             newSs == newRs \/ batch[i - 1].ss # it.ss
             t1 == IF newRs THEN Append(tree, [resource |-> it.resource, scopes |-> <<>>])
                   ELSE tree
             ri == Len(t1)
             s1 == IF newSs THEN Append(t1[ri].scopes, [scope |-> it.scope, spans |-> <<>>])
                   ELSE t1[ri].scopes
             si == Len(s1)
         IN TreeFrom(batch, attributes, i + 1,
                     [t1 EXCEPT ![ri].scopes = [s1 EXCEPT ![si].spans = Append(@, span)]])

TreeOf(batch, attributes) == TreeFrom(batch, attributes, 1, <<>>)

\* ---------------------------------------------------------------- worker pool
NoTask == [id |-> 0, item |-> 0, callback |-> FALSE]
Idle == [pc |-> "recv", task |-> NoTask]

\* newWorkerPool: a task channel of numWorkers*10 slots, numWorkers goroutines
newWorkerPool(numWorkers) ==
    /\ pool' = [numWorkers |-> numWorkers, capacity |-> numWorkers * QueueFactor,
                taskChan |-> <<>>, wg |-> 0, created |-> TRUE, closed |-> FALSE]
    /\ worker' = [w \in 1..numWorkers |-> Idle]

\* submit, first statement: p.wg.Add(1)
wgAdd == pool' = [pool EXCEPT !.wg = @ + 1]
chanSendUnbounded(t) ==
    /\ TRUE
    /\ pool' = [pool EXCEPT !.taskChan = Append(@, t)]

\* submit, second statement: p.taskChan <- task, which blocks while the buffer is full
chanSend(t) ==
    /\ Len(pool.taskChan) < pool.capacity
    /\ pool' = [pool EXCEPT !.taskChan = Append(@, t)]

wgWaitNoBarrier == TRUE

\* wait: p.wg.Wait() returns when the counter is zero
wgWait == pool.wg = 0

QueuedIds == {pool.taskChan[k].id : k \in 1..Len(pool.taskChan)}
HeldIds == {worker[w].task.id : w \in {x \in 1..Len(worker) : worker[x].pc \in {"fn", "cb", "wgdone"}}}

WaitReturns ==
    /\ wgWait
    /\ hist' = [hist EXCEPT !.waits = Append(@,
                   [submitted |-> hist.submitted, fnReturned |-> hist.fnReturned,
                    cbRan |-> hist.cbRan, done |-> hist.done,
                    queued |-> QueuedIds, held |-> HeldIds])]

\* close: close(p.taskChan)
poolClose == pool' = [pool EXCEPT !.closed = TRUE]

\* worker: for task := range p.taskChan
WorkerRecv(w) ==
    /\ worker[w].pc = "recv"
    /\ pool.taskChan # <<>>
    /\ worker' = [worker EXCEPT ![w] = [pc |-> "fn", task |-> Head(pool.taskChan)]]
    /\ pool' = [pool EXCEPT !.taskChan = Tail(@)]
    /\ UNCHANGED <<ctxErr, rt, cfg, td, attrs, pc, pos, sampled, forwarded, ret,
                   clsCall, extCall, samCall, rnd, verdict, hist>>
WorkerExitOnClose(w) ==
    /\ worker[w].pc = "recv"
    /\ pool.closed
    /\ worker' = [worker EXCEPT ![w].pc = "exit"]
    /\ UNCHANGED <<ctxErr, rt, cfg, td, attrs, pc, pos, sampled, forwarded, ret, pool,
                   clsCall, extCall, samCall, rnd, verdict, hist>>

\* worker: the range loop ends once the channel is closed and drained
WorkerExit(w) ==
    /\ worker[w].pc = "recv"
    /\ pool.taskChan = <<>>
    /\ pool.closed
    /\ worker' = [worker EXCEPT ![w].pc = "exit"]
    /\ UNCHANGED <<ctxErr, rt, cfg, td, attrs, pc, pos, sampled, forwarded, ret, pool,
                   clsCall, extCall, samCall, rnd, verdict, hist>>

\* worker: task.fn(task.ctx); for a task of processSpansInParallel or
\* processLogsInParallel, fn is the per-item processor
WorkerFn(w) ==
    /\ worker[w].pc = "fn"
    /\ IF worker[w].task.item > 0
       THEN \E co \in ClassifierOutcomes(cfg, td[worker[w].task.item]),
               eo \in ExtractorOutcomes(cfg, td[worker[w].task.item]) :
                EnrichItem(worker[w].task.item, co, eo)
       ELSE UNCHANGED <<attrs, clsCall, extCall>>
    /\ worker' = [worker EXCEPT ![w].pc = "cb"]
    /\ hist' = [hist EXCEPT !.fnReturned = @ \cup {worker[w].task.id}]
    /\ UNCHANGED <<ctxErr, rt, cfg, td, pc, pos, sampled, forwarded, ret, pool, samCall, rnd, verdict>>

\* worker: if task.callback != nil { task.callback() }
WorkerCallback(w) ==
    /\ worker[w].pc = "cb"
    /\ hist' = [hist EXCEPT !.cbRan =
                   IF worker[w].task.callback THEN @ \cup {worker[w].task.id} ELSE @]
    /\ worker' = [worker EXCEPT ![w].pc = "wgdone"]
    /\ UNCHANGED <<ctxErr, rt, cfg, td, attrs, pc, pos, sampled, forwarded, ret, pool,
                   clsCall, extCall, samCall, rnd, verdict>>

\* worker: p.wg.Done()
WorkerDone(w) ==
    /\ worker[w].pc = "wgdone"
    /\ pool' = [pool EXCEPT !.wg = @ - 1]
    /\ hist' = [hist EXCEPT !.done = @ \cup {worker[w].task.id}]
    /\ worker' = [worker EXCEPT ![w] = Idle]
    /\ UNCHANGED <<ctxErr, rt, cfg, td, attrs, pc, pos, sampled, forwarded, ret,
                   clsCall, extCall, samCall, rnd, verdict>>

Workers == 1..Len(worker)

\* ---------------------------------------------------------- the Consume* call
NumWorkersNoDefault(c) == c.MaxParallelWorkers

\* numWorkers of processTracesParallel: max_parallel_workers, 8 when it is not positive
NumWorkers(c) == IF c.MaxParallelWorkers <= 0 THEN DefaultWorkers ELSE c.MaxParallelWorkers

\* processTraces / processLogs / processMetrics: no AI feature enabled, the batch passes through
PassThrough(c) ==
    IF c.signal = "traces"
    THEN ~c.ErrorClassification /\ ~c.SmartSampling /\ ~c.EntityExtraction /\ ~c.ContextLinking
    ELSE ~c.ErrorClassification /\ ~c.SmartSampling /\ ~c.EntityExtraction

\* only processTraces has a sampling pass
SamplingPass(c) == c.signal = "traces" /\ c.SmartSampling

\* ConsumeTraces / ConsumeLogs enters processTraces / processLogs
ConsumeStart ==
    /\ pc = "idle"
    /\ IF PassThrough(cfg)
       THEN pc' = "forward" /\ UNCHANGED <<pool, worker>>
       ELSE IF cfg.EnableParallelProcessing
            THEN pc' = "submit" /\ newWorkerPool(NumWorkers(cfg))
            ELSE pc' = "process" /\ UNCHANGED <<pool, worker>>
    /\ UNCHANGED <<ctxErr, rt, cfg, td, attrs, pos, sampled, forwarded, ret,
                   clsCall, extCall, samCall, rnd, verdict, hist>>

\* serial mode: one iteration of the loop over the items of the batch
SerialProcess ==
    /\ pc = "process"
    /\ \E co \in ClassifierOutcomes(cfg, td[pos]), eo \in ExtractorOutcomes(cfg, td[pos]) :
          EnrichItem(pos, co, eo)
    /\ IF pos < N
       THEN pos' = pos + 1 /\ pc' = pc
       ELSE pos' = 1 /\ pc' = IF SamplingPass(cfg) THEN "sample" ELSE "forward"
    /\ UNCHANGED <<ctxErr, rt, cfg, td, sampled, forwarded, ret, pool, worker, samCall, rnd, verdict, hist>>

ItemTaskOfFirstItem(i) == [id |-> i, item |-> 1, callback |-> FALSE]

\* processSpansInParallel: the task of spans.At(i) runs the processor on that span
ItemTask(i) == [id |-> i, item |-> i, callback |-> FALSE]

\* parallel mode: pool.submit for the next item, up to the channel send
SubmitAdd ==
    /\ pc = "submit"
    /\ wgAdd
    /\ hist' = [hist EXCEPT !.submitted = @ \cup {pos}]
    /\ pc' = "send"
    /\ UNCHANGED <<ctxErr, rt, cfg, td, attrs, pos, sampled, forwarded, ret, worker,
                   clsCall, extCall, samCall, rnd, verdict>>

\* parallel mode: the channel send of pool.submit
SubmitSend ==
    /\ pc = "send"
    /\ chanSend(ItemTask(pos))
    /\ IF pos < N
       THEN pos' = pos + 1 /\ pc' = "submit"
       ELSE pos' = 1 /\ pc' = "wait"
    /\ UNCHANGED <<ctxErr, rt, cfg, td, attrs, sampled, forwarded, ret, worker,
                   clsCall, extCall, samCall, rnd, verdict, hist>>

WaitSkipped ==
    /\ pc = "wait"
    /\ pc' = IF SamplingPass(cfg) THEN "sample" ELSE "close"
    /\ UNCHANGED <<ctxErr, rt, cfg, td, attrs, pos, sampled, forwarded, ret, pool, worker,
                   clsCall, extCall, samCall, rnd, verdict, hist>>

\* parallel mode: pool.wait() returns
Wait ==
    /\ pc = "wait"
    /\ WaitReturns
    /\ pc' = IF SamplingPass(cfg) THEN "sample" ELSE "close"
    /\ UNCHANGED <<ctxErr, rt, cfg, td, attrs, pos, sampled, forwarded, ret, pool, worker,
                   clsCall, extCall, samCall, rnd, verdict>>

\* sampleTraces: one iteration of the loop over the spans of the batch
SampleStep ==
    /\ pc = "sample"
    /\ \E so \in SamplerOutcomes(cfg, td[pos]) :
        \E r \in DrawsFor(cfg, td[pos], so) :
          LET keep == makeSamplingDecision(cfg, td[pos], so, DrawOf(r))
          IN /\ samCall' = [samCall EXCEPT ![pos] = so]
             /\ rnd' = [rnd EXCEPT ![pos] = r]
             /\ verdict' = [verdict EXCEPT ![pos] = IF keep THEN "keep" ELSE "drop"]
             /\ sampled' = IF keep
                           THEN AppendKept(sampled, td[pos], [id |-> pos, attrs |-> attrs[pos]])
                           ELSE sampled
    /\ IF pos < N
       THEN pos' = pos + 1 /\ pc' = pc
       ELSE pos' = 1 /\ pc' = IF pool.created THEN "close" ELSE "forward"
    /\ UNCHANGED <<ctxErr, rt, cfg, td, attrs, forwarded, ret, pool, worker, clsCall, extCall, hist>>

\* parallel mode: the deferred pool.close() on return
ClosePool ==
    /\ pc = "close"
    /\ poolClose
    /\ pc' = "forward"
    /\ UNCHANGED <<ctxErr, rt, cfg, td, attrs, pos, sampled, forwarded, ret, worker,
                   clsCall, extCall, samCall, rnd, verdict, hist>>

ProcessedFromSampled == sampled

\* the batch processTraces / processLogs returns
Processed == IF SamplingPass(cfg) THEN sampled ELSE TreeOf(td, attrs)

ForwardFireAndForget ==
    /\ pc = "forward"
    /\ pc' = "forwarding"
    /\ UNCHANGED <<ctxErr, rt, cfg, td, attrs, pos, sampled, forwarded, ret, pool, worker,
                   clsCall, extCall, samCall, rnd, verdict, hist>>

\* the wrapper calls the next consumer with the processed batch ...
Forward ==
    /\ pc = "forward"
    /\ forwarded' = Append(forwarded, Processed)
    /\ pc' = "forwarding"
    /\ UNCHANGED <<ctxErr, rt, cfg, td, attrs, pos, sampled, ret, pool, worker,
                   clsCall, extCall, samCall, rnd, verdict, hist>>

\* ... and returns what the next consumer returned
Return ==
    /\ pc = "forwarding"
    /\ \E e \in {"nil", "PipelineError"} : ret' = e
    /\ pc' = "done"
    /\ UNCHANGED <<ctxErr, rt, cfg, td, attrs, pos, sampled, forwarded, pool, worker,
                   clsCall, extCall, samCall, rnd, verdict, hist>>

Next ==
    \/ ConsumeStart
    \/ SerialProcess
    \/ SubmitAdd
    \/ SubmitSend
    \/ Wait
    \/ SampleStep
    \/ ClosePool
    \/ Forward
    \/ Return
    \/ \E w \in Workers : WorkerRecv(w)
    \/ \E w \in Workers : WorkerFn(w)
    \/ \E w \in Workers : WorkerCallback(w)
    \/ \E w \in Workers : WorkerDone(w)
    \/ \E w \in Workers : WorkerExit(w)

Spec == Init /\ [][Next]_vars

\* ---- parallel Consume under a fair scheduler ----

\* a batch larger than the channel and the worker of a one-worker pool hold
\* together, and one item of every kind for the pools of eight
LiveScenarios ==
    ({Config("traces", TRUE, FALSE, FALSE, FALSE, TRUE, 1, 16, 16, 8)}
        \X {[i \in 1..BurstTasks |-> MakeSpan(1, PlainSpan)]})
    \cup ({Config("logs", TRUE, FALSE, FALSE, FALSE, TRUE, 1, 16, 16, 8)}
        \X {[i \in 1..BurstTasks |-> MakeLog(1, 9)]})
    \cup ({Config("traces", TRUE, TRUE, TRUE, FALSE, TRUE, workers, 16, 16, 8) :
             workers \in {-1, 0}}
        \X {<<MakeSpan(1, k)>> : k \in SpanKinds})
    \cup ({Config("logs", TRUE, FALSE, TRUE, FALSE, TRUE, 0, 16, 16, 8)}
        \X {<<MakeLog(1, k)>> : k \in LogKinds})

InitLive == \E sc \in LiveScenarios : InitWith(sc[1], sc[2], "nil")

\* processTracesParallel / processLogsParallel up to their return (the batch
\* is then ready to be forwarded), and the workers of their pool
NextLive ==
    \/ ConsumeStart
    \/ SubmitAdd
    \/ SubmitSend
    \/ Wait
    \/ SampleStep
    \/ ClosePool
    \/ \E w \in Workers : WorkerRecv(w)
    \/ \E w \in Workers : WorkerFn(w)
    \/ \E w \in Workers : WorkerCallback(w)
    \/ \E w \in Workers : WorkerDone(w)
    \/ \E w \in Workers : WorkerExit(w)

\* the steps of the goroutine that runs Consume, and those of one worker
DriverStep ==
    \/ ConsumeStart
    \/ SubmitAdd
    \/ SubmitSend
    \/ Wait
    \/ SampleStep
    \/ ClosePool

WorkerStep(w) ==
    \/ WorkerRecv(w)
    \/ WorkerFn(w)
    \/ WorkerCallback(w)
    \/ WorkerDone(w)
    \/ WorkerExit(w)

\* goroutines that can step do step; every per-item task returns
FairLive ==
    /\ WF_vars(DriverStep)
    /\ \A w \in 1..DefaultWorkers : WF_vars(w \in Workers /\ WorkerStep(w))

SpecLive == InitLive /\ [][NextLive]_vars /\ FairLive

\* ------------------------------------------------ the pool under any client
\* One goroutine owns a pool and uses it as the processors do (submit, wait,
\* close), with tasks of its own, with and without a callback.
InitPool ==
    InitWith(Config("traces", FALSE, FALSE, FALSE, FALSE, TRUE, 0, 16, 16, 8), <<>>, "nil")

ClientNew ==
    /\ pc = "idle"
    /\ \E n \in 1..MaxWorkers : newWorkerPool(n)
    /\ pc' = "client"
    /\ UNCHANGED <<ctxErr, rt, cfg, td, attrs, pos, sampled, forwarded, ret,
                   clsCall, extCall, samCall, rnd, verdict, hist>>

ClientSubmitAdd ==
    /\ pc = "client"
    /\ ~pool.closed
    /\ pos <= MaxTasks
    /\ wgAdd
    /\ \E cb \in BOOLEAN :
          hist' = [hist EXCEPT !.submitted = @ \cup {pos},
                               !.withCallback = IF cb THEN @ \cup {pos} ELSE @,
                               !.pending = [id |-> pos, item |-> 0, callback |-> cb]]
    /\ pc' = "client_send"
    /\ UNCHANGED <<ctxErr, rt, cfg, td, attrs, pos, sampled, forwarded, ret, worker,
                   clsCall, extCall, samCall, rnd, verdict>>

ClientSend ==
    /\ pc = "client_send"
    /\ chanSend(hist.pending)
    /\ pos' = pos + 1
    /\ pc' = "client"
    /\ UNCHANGED <<ctxErr, rt, cfg, td, attrs, sampled, forwarded, ret, worker,
                   clsCall, extCall, samCall, rnd, verdict, hist>>

ClientWait ==
    /\ pc = "client"
    /\ Len(hist.waits) < MaxTasks
    /\ WaitReturns
    /\ UNCHANGED <<ctxErr, rt, cfg, td, attrs, pc, pos, sampled, forwarded, ret, pool, worker,
                   clsCall, extCall, samCall, rnd, verdict>>

ClientClose ==
    /\ pc = "client"
    /\ ~pool.closed
    /\ poolClose
    /\ UNCHANGED <<ctxErr, rt, cfg, td, attrs, pc, pos, sampled, forwarded, ret, worker,
                   clsCall, extCall, samCall, rnd, verdict, hist>>

NextPool ==
    \/ ClientNew
    \/ ClientSubmitAdd
    \/ ClientSend
    \/ ClientWait
    \/ ClientClose
    \/ \E w \in Workers : WorkerRecv(w)
    \/ \E w \in Workers : WorkerFn(w)
    \/ \E w \in Workers : WorkerCallback(w)
    \/ \E w \in Workers : WorkerDone(w)
    \/ \E w \in Workers : WorkerExit(w)

SpecPool == InitPool /\ [][NextPool]_vars

\* ---- the pool under a burst of submissions, with the scheduler's fairness ----

\* a client that news a pool, submits task after task and closes the pool once
BurstNew ==
    /\ pc = "idle"
    /\ \E n \in 1..MaxWorkers : newWorkerPool(n)
    /\ pc' = "burst"
    /\ UNCHANGED <<ctxErr, rt, cfg, td, attrs, pos, sampled, forwarded, ret,
                   clsCall, extCall, samCall, rnd, verdict, hist>>

\* submit, first statement; nothing in submit looks at whether the pool is closed
BurstSubmitAdd ==
    /\ pc = "burst"
    /\ pos <= BurstTasks
    /\ wgAdd
    /\ hist' = [hist EXCEPT !.submitted = @ \cup {pos},
                            !.pending = [id |-> pos, item |-> 0, callback |-> FALSE]]
    /\ pc' = "burst_send"
    /\ UNCHANGED <<ctxErr, rt, cfg, td, attrs, pos, sampled, forwarded, ret, worker,
                   clsCall, extCall, samCall, rnd, verdict>>

\* submit, second statement: the send blocks while the buffer is full and
\* panics ("send on closed channel") once the channel is closed
BurstSend ==
    /\ pc = "burst_send"
    /\ IF pool.closed
       THEN pc' = "panic" /\ UNCHANGED <<pool, pos>>
       ELSE chanSend(hist.pending) /\ pos' = pos + 1 /\ pc' = "burst"
    /\ UNCHANGED <<ctxErr, rt, cfg, td, attrs, sampled, forwarded, ret, worker,
                   clsCall, extCall, samCall, rnd, verdict, hist>>

\* close, called once
BurstClose ==
    /\ pc = "burst"
    /\ ~pool.closed
    /\ poolClose
    /\ UNCHANGED <<ctxErr, rt, cfg, td, attrs, pc, pos, sampled, forwarded, ret, worker,
                   clsCall, extCall, samCall, rnd, verdict, hist>>

NextBurst ==
    \/ BurstNew
    \/ BurstSubmitAdd
    \/ BurstSend
    \/ BurstClose
    \/ \E w \in Workers : WorkerRecv(w)
    \/ \E w \in Workers : WorkerFn(w)
    \/ \E w \in Workers : WorkerCallback(w)
    \/ \E w \in Workers : WorkerDone(w)
    \/ \E w \in Workers : WorkerExit(w)

\* the Go scheduler runs every goroutine that can run: a worker that can take
\* its next step takes it, and a sender whose channel has room sends; the
\* client is free to stop submitting and never to close
FairBurst ==
    /\ WF_vars(BurstSend)
    /\ \A w \in 1..MaxWorkers :
          /\ WF_vars(w \in Workers /\ WorkerRecv(w))
          /\ WF_vars(w \in Workers /\ WorkerFn(w))
          /\ WF_vars(w \in Workers /\ WorkerCallback(w))
          /\ WF_vars(w \in Workers /\ WorkerDone(w))
          /\ WF_vars(w \in Workers /\ WorkerExit(w))

SpecBurst == InitPool /\ [][NextBurst]_vars /\ FairBurst

\* ---------------------------------------------------------------- WASM runtime
\* Two fullwasm runtimes are in the repository: WasmRuntime with its own
\* instances, whose inference calls hold mutex.RLock and whose ReloadModel holds
\* mutex.Lock ("WasmRuntime"), and WasmRuntime delegating to fullWasmImpl, which
\* takes no lock at all ("fullWasmImpl").  Both share the result caches.
Impls == {"WasmRuntime", "fullWasmImpl"}
Locks(impl) == impl = "WasmRuntime"

Kinds == {"error_classifier", "sampler", "entity_extractor"}

\* the calls followed: inference on two of the kinds, reloads of one known kind
\* and of a kind ReloadModel does not know
CallKinds == {"error_classifier", "sampler"}
ReloadKinds == {"error_classifier", "unknown_model"}

\* model files: two versions that load, and a path loadWasmModel fails on
Paths == {"v2.wasm", "missing.wasm"}
Loadable(path) == path # "missing.wasm"

\* feature records handed to the inference calls
Features == {[name |-> "GET /a"], [name |-> "GET /b"]}

\* createKey: the JSON text of the record (json.Marshal writes a map's keys in
\* sorted order), then its SHA-256, taken as injective on these few texts
createKey(input) == "{\"name\":\"" \o input.name \o "\"}"

\* what the module loaded from path answers to the exported function of kind
Compute(kind, path, input) == [module |-> path, fn |-> kind, input |-> input.name]

Callers == 1..MaxCallers

\* lru.Cache as a sequence of entries, least recently used first
RECURSIVE CacheIndex(_, _, _)
CacheIndex(cache, key, i) ==
    IF i > Len(cache) THEN 0
    ELSE IF cache[i].key = key THEN i
    ELSE CacheIndex(cache, key, i + 1)

CacheWithout(cache, i) ==
    [k \in 1..(Len(cache) - 1) |-> IF k < i THEN cache[k] ELSE cache[k + 1]]

\* lru Get: the entry becomes the most recently used one
CacheTouch(cache, i) == Append(CacheWithout(cache, i), cache[i])

\* lru Add: replace or append, then evict the oldest entry beyond maxSize
CacheAddEntry(cache, entry) ==
    LET i == CacheIndex(cache, entry.key, 1)
        c1 == IF i = 0 THEN cache ELSE CacheWithout(cache, i)
        c2 == Append(c1, entry)
    IN IF Len(c2) > ModelCacheSize THEN Tail(c2) ELSE c2

\* the entry of a run that is shorter than the ttl: key and result
CacheAdd(cache, key, result) == CacheAddEntry(cache, [key |-> key, result |-> result])

IdleCall == [pc |-> "idle", kind |-> "none", input |-> [name |-> ""], inst |-> 0,
             result |-> "none", err |-> "nil", hit |-> FALSE, moduleAtHit |-> "none",
             n |-> 0]
IdleReload == [pc |-> "idle", kind |-> "none", path |-> "none", new |-> 0,
               before |-> <<>>, err |-> "nil", n |-> 0]

\* NewWasmRuntime: one instance per configured path, empty caches
NewWasmRuntime(impl, caching, samplerPath) ==
    [impl |-> impl,
     mods |-> <<"v1.wasm", "v1.wasm", "v1.wasm">>,
     inst |-> [error_classifier |-> 1, sampler |-> IF samplerPath = "" THEN 0 ELSE 2,
               entity_extractor |-> 3],
     closed |-> {},
     readers |-> {}, writer |-> FALSE,
     caching |-> caching,
     cache |-> [k \in Kinds |-> <<>>],
     call |-> [c \in Callers |-> IdleCall],
     reload |-> IdleReload]

InitRuntime ==
    /\ \E impl \in Impls : \E caching \in BOOLEAN : \E sp \in {"", "v1.wasm"} :
          rt = NewWasmRuntime(impl, caching, sp)
    /\ ctxErr = "nil"
    /\ cfg = Config("traces", TRUE, TRUE, TRUE, FALSE, TRUE, 0, 16, 16, 8)
    /\ td = <<>> /\ attrs = <<>> /\ pc = "idle" /\ pos = 1
    /\ sampled = <<>> /\ forwarded = <<>> /\ ret = "none"
    /\ pool = NoPool /\ worker = <<>>
    /\ clsCall = <<>> /\ extCall = <<>> /\ samCall = <<>> /\ rnd = <<>> /\ verdict = <<>>
    /\ hist = NoHist

RuntimeOnly ==
    UNCHANGED <<cfg, td, attrs, pc, pos, sampled, forwarded, ret, pool, worker,
                clsCall, extCall, samCall, rnd, verdict, hist, ctxErr>>

\* where a call goes once it has its answer: the deferred RUnlock, or the return
Release(impl) == IF Locks(impl) THEN "runlock" ELSE "idle"

\* a call that has returned: only the number of calls made is remembered
Returned(call) == IF call.pc = "idle" THEN [IdleCall EXCEPT !.n = call.n] ELSE call

\* ClassifyError / SampleTelemetry / ExtractEntities: entry and cache lookup
CallStart(c, kind, input) ==
    /\ rt.call[c].pc = "idle"
    /\ rt.call[c].n < MaxCalls
    /\ LET cache == rt.cache[kind]
           i == IF rt.caching THEN CacheIndex(cache, createKey(input), 1) ELSE 0
           started == [IdleCall EXCEPT !.kind = kind, !.input = input,
                                       !.n = rt.call[c].n + 1]
       IN IF i # 0
          THEN rt' = [rt EXCEPT
                        !.cache[kind] = CacheTouch(cache, i),
                        !.call[c] = [started EXCEPT
                                       !.result = cache[i].result,
                                       !.hit = TRUE,
                                       !.moduleAtHit = IF rt.inst[kind] = 0 THEN "none"
                                                       ELSE rt.mods[rt.inst[kind]]]]
          ELSE rt' = [rt EXCEPT
                        !.call[c] = [started EXCEPT
                                       !.pc = IF Locks(rt.impl) THEN "rlock" ELSE "check"]]
    /\ RuntimeOnly

\* r.mutex.RLock(): shared with other readers, excluded by the writer
CallRLock(c) ==
    /\ rt.call[c].pc = "rlock"
    /\ ~rt.writer
    /\ rt' = [rt EXCEPT !.readers = @ \cup {c}, !.call[c].pc = "check"]
    /\ RuntimeOnly

\* the "model not loaded" test
CallCheck(c) ==
    /\ rt.call[c].pc = "check"
    /\ IF rt.inst[rt.call[c].kind] = 0
       THEN rt' = [rt EXCEPT !.call[c] = Returned([@ EXCEPT !.err = "NotLoaded",
                                                            !.pc = Release(rt.impl)])]
       ELSE rt' = [rt EXCEPT !.call[c].pc = "call"]
    /\ RuntimeOnly

\* invokeWasmFunction is entered with the instance the field holds now
CallInvoke(c) ==
    /\ rt.call[c].pc = "call"
    /\ rt' = [rt EXCEPT !.call[c].inst = rt.inst[rt.call[c].kind], !.call[c].pc = "invoke"]
    /\ RuntimeOnly

\* the outcomes of running on an instance; on a closed one anything may happen,
\* and a field that Close has set to nil is dereferenced
InvokeOutcomes(i) ==
    IF i = 0 THEN {"NilDereference"}
    ELSE {"ok", "InvokeError"} \cup (IF i \in rt.closed THEN {"UseAfterClose"} ELSE {})

\* the exported function returns
CallInvoked(c) ==
    /\ rt.call[c].pc = "invoke"
    /\ \E o \in InvokeOutcomes(rt.call[c].inst) :
          IF o = "ok"
          THEN rt' = [rt EXCEPT
                        !.call[c].result = Compute(rt.call[c].kind, rt.mods[rt.call[c].inst],
                                                   rt.call[c].input),
                        !.call[c].pc = "put"]
          ELSE rt' = [rt EXCEPT !.call[c] = Returned([@ EXCEPT !.err = o,
                                                               !.pc = Release(rt.impl)])]
    /\ RuntimeOnly

\* the result goes to the cache of its kind when caching is enabled
CallPut(c) ==
    /\ rt.call[c].pc = "put"
    /\ rt' = [rt EXCEPT
                !.cache[rt.call[c].kind] =
                    IF rt.caching
                    THEN CacheAdd(@, createKey(rt.call[c].input), rt.call[c].result)
                    ELSE @,
                !.call[c] = Returned([@ EXCEPT !.pc = Release(rt.impl)])]
    /\ RuntimeOnly

\* the deferred r.mutex.RUnlock()
CallRUnlock(c) ==
    /\ rt.call[c].pc = "runlock"
    /\ rt' = [rt EXCEPT !.readers = @ \ {c},
                        !.call[c] = Returned([@ EXCEPT !.pc = "idle"])]
    /\ RuntimeOnly

\* where ReloadModel goes once it has its error value
ReloadRelease(impl) == IF Locks(impl) THEN "unlock" ELSE "idle"

\* ReloadModel(modelType, path) is called
ReloadStart(kind, path) ==
    /\ rt.reload.pc = "idle"
    /\ rt.reload.n < MaxReloads
    /\ rt' = [rt EXCEPT !.reload = [IdleReload EXCEPT
                                      !.kind = kind, !.path = path,
                                      !.before = rt.inst,
                                      !.n = rt.reload.n + 1,
                                      !.pc = IF Locks(rt.impl) THEN "lock" ELSE "load"]]
    /\ RuntimeOnly

\* r.mutex.Lock(): no reader and no writer inside
ReloadLock ==
    /\ rt.reload.pc = "lock"
    /\ rt.readers = {} /\ ~rt.writer
    /\ rt' = [rt EXCEPT !.writer = TRUE, !.reload.pc = "load"]
    /\ RuntimeOnly

\* loadWasmModel(path)
ReloadLoad ==
    /\ rt.reload.pc = "load"
    /\ IF Loadable(rt.reload.path)
       THEN rt' = [rt EXCEPT !.mods = Append(@, rt.reload.path),
                             !.reload.new = Len(rt.mods) + 1,
                             !.reload.pc = "switch"]
       ELSE rt' = [rt EXCEPT !.reload.err = "LoadError",
                             !.reload.pc = ReloadRelease(rt.impl)]
    /\ RuntimeOnly
ReloadSwitchClosesOnUnknownKind ==
    /\ rt.reload.pc = "switch"
    /\ IF rt.reload.kind \in Kinds
       THEN rt' = [rt EXCEPT
                     !.closed = IF rt.inst[rt.reload.kind] # 0
                                THEN @ \cup {rt.inst[rt.reload.kind]} ELSE @,
                     !.reload.pc = "assign"]
       ELSE rt' = [rt EXCEPT !.closed = @ \cup {rt.inst["error_classifier"]},
                             !.reload.err = "UnknownModelType",
                             !.reload.pc = ReloadRelease(rt.impl)]
    /\ RuntimeOnly

\* switch modelType: the old instance of a known kind is closed
ReloadSwitch ==
    /\ rt.reload.pc = "switch"
    /\ IF rt.reload.kind \in Kinds
       THEN rt' = [rt EXCEPT
                     !.closed = IF rt.inst[rt.reload.kind] # 0
                                THEN @ \cup {rt.inst[rt.reload.kind]} ELSE @,
                     !.reload.pc = "assign"]
       ELSE rt' = [rt EXCEPT !.reload.err = "UnknownModelType",
                             !.reload.pc = ReloadRelease(rt.impl)]
    /\ RuntimeOnly

\* the field takes the new instance
ReloadAssign ==
    /\ rt.reload.pc = "assign"
    /\ rt' = [rt EXCEPT !.inst[rt.reload.kind] = rt.reload.new,
                        !.reload.pc = ReloadRelease(rt.impl)]
    /\ RuntimeOnly

\* the deferred r.mutex.Unlock()
ReloadUnlock ==
    /\ rt.reload.pc = "unlock"
    /\ rt' = [rt EXCEPT !.writer = FALSE, !.reload.pc = "idle"]
    /\ RuntimeOnly

NextRuntime ==
    \/ \E c \in Callers : \E kind \in CallKinds : \E input \in Features :
          CallStart(c, kind, input)
    \/ \E c \in Callers : CallRLock(c)
    \/ \E c \in Callers : CallCheck(c)
    \/ \E c \in Callers : CallInvoke(c)
    \/ \E c \in Callers : CallInvoked(c)
    \/ \E c \in Callers : CallPut(c)
    \/ \E c \in Callers : CallRUnlock(c)
    \/ \E kind \in ReloadKinds : \E path \in Paths : ReloadStart(kind, path)
    \/ ReloadLock
    \/ ReloadLoad
    \/ ReloadSwitch
    \/ ReloadAssign
    \/ ReloadUnlock

SpecRuntime == InitRuntime /\ [][NextRuntime]_vars

\* ---- Close of the runtime while inference calls are made ----

\* the order in which Close releases the instances
CloseOrder == <<"error_classifier", "sampler", "entity_extractor">>

IdleClose == [pc |-> "idle", next |-> 1, released |-> {}, n |-> 0]

\* a runtime as NewWasmRuntime makes it, Close not yet called
InitClose ==
    /\ \E impl \in Impls : \E caching \in BOOLEAN : \E sp \in {"", "v1.wasm"} :
          rt = NewWasmRuntime(impl, caching, sp) @@ [close |-> IdleClose]
    /\ ctxErr = "nil"
    /\ cfg = Config("traces", TRUE, TRUE, TRUE, FALSE, TRUE, 0, 16, 16, 8)
    /\ td = <<>> /\ attrs = <<>> /\ pc = "idle" /\ pos = 1
    /\ sampled = <<>> /\ forwarded = <<>> /\ ret = "none"
    /\ pool = NoPool /\ worker = <<>>
    /\ clsCall = <<>> /\ extCall = <<>> /\ samCall = <<>> /\ rnd = <<>> /\ verdict = <<>>
    /\ hist = NoHist

\* Close() is called (the processor's shutdown)
CloseStart ==
    /\ rt.close.pc = "idle"
    /\ rt.close.n = 0
    /\ rt' = [rt EXCEPT !.close.n = 1,
                        !.close.pc = IF Locks(rt.impl) THEN "lock" ELSE "release"]
    /\ RuntimeOnly

\* r.mutex.Lock(): no reader and no writer inside
CloseLock ==
    /\ rt.close.pc = "lock"
    /\ rt.readers = {} /\ ~rt.writer
    /\ rt' = [rt EXCEPT !.writer = TRUE, !.close.pc = "release"]
    /\ RuntimeOnly

CloseAfter(impl, next) ==
    IF next < Len(CloseOrder) THEN "release"
    ELSE IF Locks(impl) THEN "unlock" ELSE "done"

\* if field != nil { field.Close(); field = nil }, for the next of the fields
CloseRelease ==
    /\ rt.close.pc = "release"
    /\ LET k == CloseOrder[rt.close.next]
           i == rt.inst[k]
       IN rt' = [rt EXCEPT
                   !.closed = IF i # 0 THEN @ \cup {i} ELSE @,
                   !.inst[k] = 0,
                   !.close.released = IF i # 0 THEN @ \cup {i} ELSE @,
                   !.close.next = IF rt.close.next < Len(CloseOrder) THEN @ + 1 ELSE @,
                   !.close.pc = CloseAfter(rt.impl, rt.close.next)]
    /\ RuntimeOnly

\* the deferred r.mutex.Unlock(); Close returns
CloseUnlock ==
    /\ rt.close.pc = "unlock"
    /\ rt' = [rt EXCEPT !.writer = FALSE, !.close.pc = "done"]
    /\ RuntimeOnly

NextClose ==
    \/ \E c \in Callers : \E kind \in CallKinds : \E input \in Features :
          CallStart(c, kind, input)
    \/ \E c \in Callers : CallRLock(c)
    \/ \E c \in Callers : CallCheck(c)
    \/ \E c \in Callers : CallInvoke(c)
    \/ \E c \in Callers : CallInvoked(c)
    \/ \E c \in Callers : CallPut(c)
    \/ \E c \in Callers : CallRUnlock(c)
    \/ CloseStart
    \/ CloseLock
    \/ CloseRelease
    \/ CloseUnlock

SpecClose == InitClose /\ [][NextClose]_vars

\* ---- the result cache of one model and the wrapper's call path through it ----

\* a result map: a scalar under one key, and under another the address of a
\* nested array, whose content lives in the heap
NoResult == [category |-> "", services |-> 0]
ModuleResult(ref) == [category |-> "database_error", services |-> ref]

\* the value a caller reads through a result map
Deref(result, heap) ==
    [category |-> result.category,
     services |-> IF result.services = 0 THEN "" ELSE heap[result.services]]

NoEntry == [key |-> "", result |-> NoResult, expiresAt |-> 0, snap |-> Deref(NoResult, <<>>)]

CacheKeys == {createKey(f) : f \in Features}

IdleCacheCall == [pc |-> "idle", input |-> [name |-> ""], found |-> FALSE, entry |-> NoEntry,
                  expired |-> FALSE, hit |-> FALSE, invoked |-> FALSE, result |-> NoResult,
                  err |-> "nil", local |-> 0, since |-> 0, n |-> 0]

\* initializeRuntime: a cache when EnableModelCaching is set (and maxSize > 0),
\* none otherwise
initializeRuntime(enabled) ==
    [impl |-> "cache",
     enabled |-> enabled,
     cache |-> <<>>,
     now |-> 0,
     heap |-> <<>>,
     hitCount |-> 0, missCount |-> 0,
     invoked |-> [k \in CacheKeys |-> 0],
     call |-> [c \in Callers |-> IdleCacheCall]]

InitCache ==
    /\ \E enabled \in BOOLEAN : rt = initializeRuntime(enabled)
    /\ ctxErr = "nil"
    /\ cfg = Config("traces", TRUE, TRUE, TRUE, FALSE, TRUE, 0, 16, 16, 8)
    /\ td = <<>> /\ attrs = <<>> /\ pc = "idle" /\ pos = 1
    /\ sampled = <<>> /\ forwarded = <<>> /\ ret = "none"
    /\ pool = NoPool /\ worker = <<>>
    /\ clsCall = <<>> /\ extCall = <<>> /\ samCall = <<>> /\ rnd = <<>> /\ verdict = <<>>
    /\ hist = NoHist
CacheGetNoLookup(c, input) ==
    /\ rt.call[c].pc \in {"idle", "done"}
    /\ rt.call[c].n < MaxCalls
    /\ rt' = [rt EXCEPT !.call[c] = [IdleCacheCall EXCEPT !.input = input,
                                                         !.n = rt.call[c].n + 1,
                                                         !.since = rt.now,
                                                         !.pc = "invoke"]]
    /\ RuntimeOnly

\* ClassifyError of the wrapper is entered and, with a cache, Get looks the key
\* up under the read lock (the lookup makes the entry the most recently used)
CacheGet(c, input) ==
    /\ rt.call[c].pc \in {"idle", "done"}
    /\ rt.call[c].n < MaxCalls
    /\ LET started == [IdleCacheCall EXCEPT !.input = input, !.n = rt.call[c].n + 1]
           i == CacheIndex(rt.cache, createKey(input), 1)
       IN IF ~rt.enabled
          THEN rt' = [rt EXCEPT !.call[c] = [started EXCEPT !.since = rt.now,
                                                            !.pc = "invoke"]]
          ELSE IF i = 0
          THEN rt' = [rt EXCEPT !.call[c] = [started EXCEPT !.pc = "miss_load"]]
          ELSE rt' = [rt EXCEPT !.cache = CacheTouch(@, i),
                                !.call[c] = [started EXCEPT !.found = TRUE,
                                                            !.entry = rt.cache[i],
                                                            !.pc = "check"]]
    /\ RuntimeOnly
GetCheckIgnoresExpiry(c) ==
    /\ rt.call[c].pc = "check"
    /\ rt' = [rt EXCEPT !.call[c].pc = "hit_load"]
    /\ RuntimeOnly

\* Get, after the read lock is released: time.Now().After(entry.expiresAt)
GetCheck(c) ==
    /\ rt.call[c].pc = "check"
    /\ IF rt.now > rt.call[c].entry.expiresAt
       THEN rt' = [rt EXCEPT !.call[c].expired = TRUE, !.call[c].pc = "remove"]
       ELSE rt' = [rt EXCEPT !.call[c].pc = "hit_load"]
    /\ RuntimeOnly

\* Get: c.cache.Remove(key) under the write lock, whatever the key holds by now
GetRemove(c) ==
    /\ rt.call[c].pc = "remove"
    /\ LET i == CacheIndex(rt.cache, createKey(rt.call[c].input), 1)
       IN rt' = [rt EXCEPT !.cache = IF i = 0 THEN @ ELSE CacheWithout(@, i),
                           !.call[c].pc = "miss_load"]
    /\ RuntimeOnly

\* c.missCount++ / c.hitCount++ outside any lock: the read of the counter ...
GetCountLoad(c) ==
    /\ rt.call[c].pc \in {"miss_load", "hit_load"}
    /\ IF rt.call[c].pc = "miss_load"
       THEN rt' = [rt EXCEPT !.call[c].local = rt.missCount, !.call[c].pc = "miss_store"]
       ELSE rt' = [rt EXCEPT !.call[c].local = rt.hitCount, !.call[c].pc = "hit_store"]
    /\ RuntimeOnly

\* ... and the write of the counter; after a hit the wrapper returns the map
\* the entry holds, after a miss it goes on to the implementation
GetCountStore(c) ==
    /\ rt.call[c].pc \in {"miss_store", "hit_store"}
    /\ IF rt.call[c].pc = "miss_store"
       THEN rt' = [rt EXCEPT !.missCount = rt.call[c].local + 1,
                             !.call[c].local = 0,
                             !.call[c].since = rt.now,
                             !.call[c].pc = "invoke"]
       ELSE rt' = [rt EXCEPT !.hitCount = rt.call[c].local + 1,
                             !.call[c].local = 0,
                             !.call[c].hit = TRUE,
                             !.call[c].result = rt.call[c].entry.result,
                             !.call[c].pc = "done"]
    /\ RuntimeOnly

\* r.impl.ClassifyError down to invokeWasmFunction: the exported function
\* returns when it returns, however long it ran (since is the time it was
\* entered); a result is a new map with a new nested array
ImplCall(c) ==
    /\ rt.call[c].pc = "invoke"
    /\ \E o \in {"ok", "InvokeError"} :
          IF o = "ok"
          THEN rt' = [rt EXCEPT !.invoked[createKey(rt.call[c].input)] = @ + 1,
                                !.heap = Append(@, "[db]"),
                                !.call[c].invoked = TRUE,
                                !.call[c].since = 0,
                                !.call[c].result = ModuleResult(Len(rt.heap) + 1),
                                !.call[c].pc = "put"]
          ELSE rt' = [rt EXCEPT !.invoked[createKey(rt.call[c].input)] = @ + 1,
                                !.call[c].invoked = TRUE,
                                !.call[c].since = 0,
                                !.call[c].err = o,
                                !.call[c].pc = "done"]
    /\ RuntimeOnly

\* Put: the top-level map is copied key by key, so the copy holds the nested
\* array of the original; snap is the value of the result at this moment
CachePut(c) ==
    /\ rt.call[c].pc = "put"
    /\ rt' = [rt EXCEPT
                !.cache = IF rt.enabled
                          THEN CacheAddEntry(@, [key |-> createKey(rt.call[c].input),
                                                 result |-> rt.call[c].result,
                                                 expiresAt |-> rt.now + CacheTTL,
                                                 snap |-> Deref(rt.call[c].result, rt.heap)])
                          ELSE @,
                !.call[c].pc = "done"]
    /\ RuntimeOnly

\* the caller changes the result its call computed: a key of the map it was
\* returned, or the nested array
CallerMutates(c) ==
    /\ rt.call[c].pc = "done"
    /\ rt.call[c].invoked /\ rt.call[c].err = "nil"
    /\ \/ /\ rt.call[c].result.category # "changed"
          /\ rt' = [rt EXCEPT !.call[c].result.category = "changed"]
       \/ /\ rt.heap[rt.call[c].result.services] # "[db,changed]"
          /\ rt' = [rt EXCEPT !.heap[rt.call[c].result.services] = "[db,changed]"]
    /\ RuntimeOnly

\* time passes
Tick ==
    /\ rt.now < MaxNow
    /\ rt' = [rt EXCEPT !.now = @ + 1]
    /\ RuntimeOnly

NextCache ==
    \/ \E c \in Callers : \E input \in Features : CacheGet(c, input)
    \/ \E c \in Callers : GetCheck(c)
    \/ \E c \in Callers : GetRemove(c)
    \/ \E c \in Callers : GetCountLoad(c)
    \/ \E c \in Callers : GetCountStore(c)
    \/ \E c \in Callers : ImplCall(c)
    \/ \E c \in Callers : CachePut(c)
    \/ \E c \in Callers : CallerMutates(c)
    \/ Tick

SpecCache == InitCache /\ [][NextCache]_vars

\* ---- one span taken through the pipeline twice, with result caches ----

\* the modules followed: one that answers the same to every input, and one whose
\* confidence takes a confidence attribute of its input into account
Modules == {"constant", "reads_attributes"}

ModuleAnswer(module, kind, input, ns) ==
    LET base == IF kind = "error_classifier" THEN ClassifierOutput ELSE ExtractorOutput
    IN IF module = "reads_attributes" /\ (ns \o "confidence") \in DOMAIN input
       THEN [base EXCEPT !.confidence = Float("0.5")]
       ELSE base

\* the attributes a result makes setAttribute write
Written(result, ns) ==
    {<<ns \o k, result[k]>> : k \in {x \in DOMAIN result : result[x].t \in ScalarTypes}}

\* NewWasmRuntime with EnableModelCaching and caches large enough for the run
RerunRuntime(module) ==
    [impl |-> "rerun", module |-> module,
     cache |-> [error_classifier |-> {}, entity_extractor |-> {}],
     run |-> 1, failed |-> FALSE, hits |-> 0,
     written |-> <<{}, {}>>]

InitRerun ==
    /\ \E module \in Modules : rt = RerunRuntime(module)
    /\ \E ec \in BOOLEAN : \E ee \in BOOLEAN :
          cfg = Config("traces", ec, FALSE, ee, FALSE, FALSE, 0, 16, 16, 8)
    /\ \E k \in SpanKinds : td = <<MakeSpan(1, k)>>
    /\ attrs = <<InitialAttributes>>
    /\ ctxErr = "nil"
    /\ pc = "classify" /\ pos = 1
    /\ sampled = <<>> /\ forwarded = <<>> /\ ret = "none"
    /\ pool = NoPool /\ worker = <<>>
    /\ clsCall = <<>> /\ extCall = <<>> /\ samCall = <<>> /\ rnd = <<>> /\ verdict = <<>>
    /\ hist = NoHist

\* a call of the runtime for the span as it is now (the feature record holds
\* attributesToMap(span.Attributes())), and the write of its result
RerunCall(kind) ==
    LET input == attrs[1]
        cached == {e \in rt.cache[kind] : e.key = input}
    IN IF cached # {}
       THEN LET result == (CHOOSE e \in cached : TRUE).result
            IN /\ attrs' = [attrs EXCEPT ![1] = WriteResult(@, result, DOMAIN result,
                                                            cfg.AttributeNamespace)]
               /\ rt' = [rt EXCEPT !.hits = @ + 1,
                                   !.written[rt.run] =
                                       @ \cup Written(result, cfg.AttributeNamespace)]
       ELSE \E o \in {"ok", "InvokeError"} :
               IF o = "ok"
               THEN LET result == ModuleAnswer(rt.module, kind, input, cfg.AttributeNamespace)
                    IN /\ attrs' = [attrs EXCEPT ![1] = WriteResult(@, result, DOMAIN result,
                                                                    cfg.AttributeNamespace)]
                       /\ rt' = [rt EXCEPT !.cache[kind] =
                                               @ \cup {[key |-> input, result |-> result]},
                                           !.written[rt.run] =
                                               @ \cup Written(result, cfg.AttributeNamespace)]
               ELSE /\ attrs' = attrs
                    /\ rt' = [rt EXCEPT !.failed = TRUE]

\* processSpan, first half: classification of an ERROR span
RerunClassifyError ==
    /\ pc = "classify"
    /\ rt.run = pos
    /\ IF td[1].status = "Error" /\ cfg.ErrorClassification
       THEN RerunCall("error_classifier")
       ELSE UNCHANGED <<attrs, rt>>
    /\ pc' = "extract"
    /\ UNCHANGED <<ctxErr, cfg, td, pos, sampled, forwarded, ret, pool, worker,
                   clsCall, extCall, samCall, rnd, verdict, hist>>

\* processSpan, second half: entity extraction; then the batch is consumed again
RerunExtractEntities ==
    /\ pc = "extract"
    /\ IF cfg.EntityExtraction
       THEN RerunCall("entity_extractor")
       ELSE UNCHANGED <<attrs, rt>>
    /\ pc' = IF pos = 1 THEN "classify" ELSE "done"
    /\ pos' = pos + 1
    /\ UNCHANGED <<ctxErr, cfg, td, sampled, forwarded, ret, pool, worker,
                   clsCall, extCall, samCall, rnd, verdict, hist>>

\* the second Consume call begins
RerunAgain ==
    /\ pc = "classify" /\ pos = 2 /\ rt.run = 1
    /\ rt' = [rt EXCEPT !.run = 2]
    /\ UNCHANGED <<ctxErr, cfg, td, attrs, pc, pos, sampled, forwarded, ret, pool, worker,
                   clsCall, extCall, samCall, rnd, verdict, hist>>

NextRerun ==
    \/ RerunClassifyError
    \/ RerunExtractEntities
    \/ RerunAgain

SpecRerun == InitRerun /\ [][NextRerun]_vars

\* ---- AttributesToMap and its process-wide cache ----

\* attribute maps with string values, over the keys of AllKeys
ConvertValues == {"bc", "c"}
ConvertMaps == UNION {[D -> ConvertValues] : D \in SUBSET {"a", "ab"}}

\* AttributeMapCache.Load(hash): the map stored under the hash, if any
CachedMaps(cache, hash) == {e \in cache : e.hash = hash}

\* common.AttributesToMap: an empty map is answered at once; a map whose hash
\* is in the cache is answered with a copy of the cached map; any other map is
\* converted pair by pair and stored under its hash
AttributesToMap(cache, m) ==
    IF DOMAIN m = {} THEN [result |-> m, cache |-> cache]
    ELSE IF CachedMaps(cache, CalculateAttributeMapHash(m)) # {}
    THEN [result |-> (CHOOSE e \in CachedMaps(cache, CalculateAttributeMapHash(m)) : TRUE).map,
          cache |-> cache]
    ELSE [result |-> m,
          cache |-> cache \cup {[hash |-> CalculateAttributeMapHash(m), map |-> m]}]

InitConvert ==
    /\ rt = [impl |-> "convert", AttributeMapCache |-> {},
             input |-> <<>>, output |-> <<>>, n |-> 0]
    /\ ctxErr = "nil"
    /\ cfg = Config("traces", TRUE, TRUE, TRUE, FALSE, TRUE, 0, 16, 16, 8)
    /\ td = <<>> /\ attrs = <<>> /\ pc = "idle" /\ pos = 1
    /\ sampled = <<>> /\ forwarded = <<>> /\ ret = "none"
    /\ pool = NoPool /\ worker = <<>>
    /\ clsCall = <<>> /\ extCall = <<>> /\ samCall = <<>> /\ rnd = <<>> /\ verdict = <<>>
    /\ hist = NoHist

\* one call of AttributesToMap(m)
Convert(m) ==
    /\ rt.n < MaxConversions
    /\ rt' = [rt EXCEPT !.AttributeMapCache = AttributesToMap(rt.AttributeMapCache, m).cache,
                        !.input = m,
                        !.output = AttributesToMap(rt.AttributeMapCache, m).result,
                        !.n = @ + 1]
    /\ RuntimeOnly

NextConvert == \E m \in ConvertMaps : Convert(m)

SpecConvert == InitConvert /\ [][NextConvert]_vars

\* ================================================================== properties
\* the span sequences of the (resource, scope) groups of a batch
GroupsOf(tree) ==
    { tree[r].scopes[q].spans : <<r, q>> \in
        { x \in (1..Len(tree)) \X (1..MaxSpans) : x[2] <= Len(tree[x[1]].scopes) } }

RECURSIVE Concat(_, _)
Concat(seqs, i) == IF i > Len(seqs) THEN <<>> ELSE seqs[i] \o Concat(seqs, i + 1)

\* the items of a batch, in batch order
SpansOf(tree) ==
    Concat([r \in 1..Len(tree) |->
              Concat([q \in 1..Len(tree[r].scopes) |-> tree[r].scopes[q].spans], 1)], 1)

Done == pc = "done"
Out == forwarded[1]
OutSpans == SpansOf(Out)
Emitted(i) == \E k \in 1..Len(OutSpans) : OutSpans[k].id = i
Dropped == {i \in Ids : verdict[i] = "drop"}

\* C1: a finished Consume has forwarded one batch holding as many items as the
\* input minus those the sampling pass dropped, and no input item twice.
C1_ForwardedCount ==
    Done =>
       /\ Len(forwarded) = 1
       /\ Len(OutSpans) = N - Cardinality(Dropped)
       /\ \A k \in 1..Len(OutSpans) : \A l \in 1..Len(OutSpans) :
             OutSpans[k].id = OutSpans[l].id => k = l

C1_Witness ==
    /\ Done
    /\ \E i \in Ids : verdict[i] = "drop"
    /\ \E i \in Ids : verdict[i] = "keep"
    /\ Len(OutSpans) = 1

\* C2: in every (resource, scope) group of the forwarded batch the items are
\* in input order (ids are input positions), in serial and in parallel mode.
C2_GroupOrder ==
    Done =>
       \A g \in GroupsOf(Out) : \A k \in 1..Len(g) : \A l \in 1..Len(g) :
          k < l => g[k].id < g[l].id

\* a parallel run whose output group merges spans of two input ResourceSpans
C2_Witness ==
    /\ Done
    /\ cfg.EnableParallelProcessing
    /\ SamplingPass(cfg)
    /\ \E g \in GroupsOf(Out) :
          /\ Len(g) = 2
          /\ td[g[1].id].rs # td[g[2].id].rs

\* C3: with sampling enabled and error_events >= 1.0 every ERROR span and
\* every log record of severity >= 17 is in the forwarded batch.
C3_ErrorsKept ==
    (Done /\ cfg.SmartSampling /\ cfg.ErrorEvents >= RateOne) =>
       \A i \in Ids : IsErrorItem(cfg, td[i]) => Emitted(i)

\* an ERROR span forwarded although normal_spans = 0 drops its neighbour
C3_Witness ==
    /\ Done
    /\ cfg.signal = "traces" /\ cfg.SmartSampling
    /\ cfg.ErrorEvents >= RateOne /\ cfg.NormalSpans = 0
    /\ \E i \in Ids : td[i].status = "Error" /\ Emitted(i)
    /\ \E i \in Ids : verdict[i] = "drop"

\* C4: when Wait() returns, every task submitted before has run its fn and its
\* callback (when it has one) and is marked done; none is queued or held.
C4_WaitBarrier ==
    \A k \in 1..Len(hist.waits) :
       LET w == hist.waits[k]
       IN /\ w.submitted \subseteq w.fnReturned
          /\ (w.submitted \cap hist.withCallback) \subseteq w.cbRan
          /\ w.submitted \subseteq w.done
          /\ w.queued = {}
          /\ w.held = {}

C4_Witness ==
    \E k \in 1..Len(hist.waits) :
       /\ Cardinality(hist.waits[k].submitted) >= 2
       /\ hist.waits[k].submitted \cap hist.withCallback # {}
       /\ hist.waits[k].submitted \ hist.withCallback # {}

SamplingStarted == pc = "sample" \/ sampled # <<>> \/ \E i \in Ids : verdict[i] # "none"

\* C5: in parallel mode, once the sampling pass has started no enrichment task
\* of the batch is queued or running: all of them are done.
C5_SampleAfterBarrier ==
    (cfg.EnableParallelProcessing /\ SamplingStarted) =>
       /\ pool.taskChan = <<>>
       /\ \A w \in Workers : worker[w].pc \in {"recv", "exit"}
       /\ hist.done = Ids
       /\ \A i \in Ids : ClassifierCalled(cfg, td[i]) => clsCall[i].st # "none"
       /\ \A i \in Ids : ExtractorCalled(cfg, td[i]) => extCall[i].st # "none"

C5_Witness ==
    /\ cfg.EnableParallelProcessing
    /\ pc = "sample"
    /\ N = 2 /\ pos = 2
    /\ verdict[1] = "keep"
    /\ extCall[2].st = "ok"

\* --- the pipeline as a function of the configuration, for the calls' recorded
\* --- outcomes and draws
RefAttrs(c) ==
    [i \in Ids |-> ProcessItem(c, td[i], InitialAttributes, clsCall[i], extCall[i])]

RECURSIVE RefSample(_, _, _, _)
RefSample(c, a, i, tree) ==
    IF i > N THEN tree
    ELSE RefSample(c, a, i + 1,
            IF makeSamplingDecision(c, td[i], samCall[i], DrawOf(rnd[i]))
            THEN AppendKept(tree, td[i], [id |-> i, attrs |-> a[i]])
            ELSE tree)

RefProcessed(c) ==
    IF PassThrough(c) THEN TreeOf(td, [i \in Ids |-> InitialAttributes])
    ELSE IF SamplingPass(c) THEN RefSample(c, RefAttrs(c), 1, <<>>)
    ELSE TreeOf(td, RefAttrs(c))

ClassifierAlwaysFails == cfg.ErrorClassification /\ \A i \in Ids : clsCall[i].st # "ok"
ExtractorAlwaysFails == cfg.EntityExtraction /\ \A i \in Ids : extCall[i].st # "ok"
SamplerAlwaysFails == cfg.SmartSampling /\ \A i \in Ids : samCall[i].st # "ok"

AttrsOut(i) == (CHOOSE k \in 1..Len(OutSpans) : OutSpans[k].id = i)

\* C7: a failed classification or extraction does not stop the call: the batch
\* is forwarded, the item goes through the remaining stages and is emitted
\* with the enrichments that succeeded only, as is every other item.
C7_InferenceErrorsSwallowed ==
    Done =>
       /\ Len(forwarded) = 1
       /\ ret \in {"nil", "PipelineError"}
       /\ \A i \in Ids :
            /\ ExtractorCalled(cfg, td[i]) => extCall[i].st # "none"
            /\ SamplingPass(cfg) => verdict[i] # "none"
            /\ Emitted(i) <=> verdict[i] # "drop"
            /\ Emitted(i) =>
                 LET a == OutSpans[AttrsOut(i)].attrs
                 IN /\ "method" \in DOMAIN a
                    /\ a["method"] = Str("GET")
                    /\ clsCall[i].st = "ok" <=> "ai.category" \in DOMAIN a
                    /\ extCall[i].st = "ok" =>
                          /\ "ai.confidence" \in DOMAIN a
                          /\ a["ai.confidence"] = Float("0.9")
                    /\ (clsCall[i].st = "ok" /\ extCall[i].st # "ok") =>
                          /\ "ai.confidence" \in DOMAIN a
                          /\ a["ai.confidence"] = Float("0.85")
                    /\ (clsCall[i].st # "ok" /\ extCall[i].st # "ok")
                          => "ai.confidence" \notin DOMAIN a

C7_Witness ==
    /\ Done
    /\ \E i \in Ids : \E j \in Ids :
          /\ clsCall[i].st = "err" /\ extCall[i].st = "ok" /\ Emitted(i)
          /\ clsCall[j].st = "ok" /\ extCall[j].st = "err" /\ Emitted(j)

Decided(i) == verdict[i] # "none"

\* C8: a span whose SampleTelemetry call failed is kept iff normal_spans >= 1.0,
\* or 0 < normal_spans < 1.0 and the draw is below normal_spans.
C8_FallbackToNormalRate ==
    \A i \in Ids :
       (samCall[i].st = "err" /\ Decided(i)) =>
          /\ verdict[i] = "keep" <=>
                \/ cfg.NormalSpans >= RateOne
                \/ (cfg.NormalSpans > 0 /\ rnd[i] # <<>> /\ rnd[i][1] < cfg.NormalSpans)
          /\ Done => (Emitted(i) <=> verdict[i] = "keep")

C8_Witness ==
    /\ Done
    /\ \E i \in Ids : samCall[i].st = "err" /\ verdict[i] = "drop" /\ cfg.NormalSpans = 8
    /\ \E i \in Ids : samCall[i].st = "err" /\ verdict[i] = "keep" /\ cfg.NormalSpans = 8

C10_KeepFalseDropped ==
    Done =>
       \A i \in Ids : (samCall[i].st = "ok" /\ ~samCall[i].keep) => ~Emitted(i)

\* C11 (amended): a span whose duration in whole milliseconds, (end - start)
\* integer-divided by 1e6, is greater than threshold_ms is kept when
\* slow_spans >= 1.0, the sampler is not called for it, and the value of
\* normal_spans does not matter.
C11_SlowSpansKept ==
    \A i \in Ids :
       (cfg.signal = "traces" /\ Decided(i) /\ cfg.SlowSpans >= RateOne
          /\ DurationMs(td[i]) > cfg.ThresholdMs) =>
             /\ verdict[i] = "keep"
             /\ samCall[i].st = "none"
             /\ rnd[i] = <<>>
             /\ Done => Emitted(i)

C11_Witness ==
    /\ Done
    /\ cfg.NormalSpans = 0 /\ cfg.SlowSpans >= RateOne
    /\ \E i \in Ids : /\ td[i].status = "Ok"
                      /\ td[i].endNs - td[i].startNs = 501000000
                      /\ Emitted(i)

\* C11 as claimed: the duration compared with threshold_ms is the exact quotient
\* (end - start) / 1e6, so 500.999999 ms counts as greater than 500.
C11_SlowSpansKeptExactDuration ==
    \A i \in Ids :
       (cfg.signal = "traces" /\ Decided(i) /\ cfg.SlowSpans >= RateOne
          /\ td[i].endNs - td[i].startNs > cfg.ThresholdMs * NanosPerMilli) =>
             verdict[i] = "keep"

\* C12 as claimed: with smart sampling enabled the logs processor asks the
\* sampler about every log record below ERROR severity, and a record whose
\* verdict is drop is not forwarded.
C12_LogsSampled ==
    (Done /\ cfg.signal = "logs" /\ cfg.SmartSampling) =>
       \A i \in Ids :
          td[i].severity < SeverityNumberError =>
             /\ samCall[i].st # "none"
             /\ verdict[i] = "drop" => ~Emitted(i)

\* C13 as claimed: with smart sampling enabled the metrics processor asks the
\* sampler about every data point, and a point whose verdict is drop is not
\* forwarded.
C13_MetricPointsSampled ==
    (Done /\ cfg.signal = "metrics" /\ cfg.SmartSampling) =>
       \A i \in Ids :
          /\ samCall[i].st # "none"
          /\ verdict[i] = "drop" => ~Emitted(i)

C15_ForwardedOnceBeforeReturn ==
    /\ [](Len(forwarded) <= 1)
    /\ [](ret # "none" => (pc = "done" /\ Len(forwarded) = 1 /\ forwarded[1] = Processed))
    /\ [][ret # "none" => forwarded' = forwarded]_vars

C15_Witness ==
    /\ ret = "nil"
    /\ cfg.EnableParallelProcessing /\ SamplingPass(cfg)
    /\ Len(forwarded) = 1 /\ Len(OutSpans) = 1 /\ N = 2
    /\ \E w \in Workers : worker[w].pc # "exit"

\* C16 as claimed: a Consume call whose context is already cancelled submits no
\* task to the worker pool and returns the cancellation error.
C16_CancelledStopsSubmitting ==
    ctxErr = "Canceled" =>
       /\ hist.submitted = {}
       /\ Done => ret = "Canceled"

\* C17 as claimed: no two inference calls execute on the same WASM instance at
\* the same time.
C17_OneCallPerInstance ==
    \A c1 \in Callers : \A c2 \in Callers :
       (c1 # c2 /\ rt.impl # "none"
          /\ rt.call[c1].pc = "invoke" /\ rt.call[c2].pc = "invoke") =>
             rt.call[c1].inst # rt.call[c2].inst

\* C18 as claimed: an inference call never executes on an instance that
\* ReloadModel has already released, and while it executes its instance is
\* still the current one of its kind.
C18_ReloadAtomic ==
    \A c \in Callers :
       (rt.impl # "none" /\ rt.call[c].pc = "invoke") =>
          /\ rt.call[c].inst \notin rt.closed
          /\ rt.call[c].inst = rt.inst[rt.call[c].kind]

ReloadFinished == rt.impl # "none" /\ rt.reload.pc = "idle" /\ rt.reload.n > 0

C20_CacheCoherent ==
    \A c \in Callers :
       (rt.impl # "none" /\ rt.call[c].hit) =>
          rt.call[c].result = Compute(rt.call[c].kind, rt.call[c].moduleAtHit, rt.call[c].input)

\* the keys the models answer with
ResultKeys == DOMAIN ClassifierOutput \cup DOMAIN ExtractorOutput

\* key = namespace + k for a key k of a result
HasNamespace(key, ns) == \E k \in ResultKeys : key = ns \o k

\* C29: every attribute an item has gained carries the configured namespace as
\* prefix of its key, and every attribute the item came with is still there
\* with the value it came with; the same holds for the items forwarded.
C29_NamespaceDiscipline ==
    /\ \A i \in 1..Len(attrs) :
          /\ \A k \in DOMAIN attrs[i] \ DOMAIN InitialAttributes :
                HasNamespace(k, cfg.AttributeNamespace)
          /\ \A k \in DOMAIN InitialAttributes :
                k \in DOMAIN attrs[i] /\ attrs[i][k] = InitialAttributes[k]
    /\ Done =>
          \A n \in 1..Len(OutSpans) :
             /\ \A k \in DOMAIN OutSpans[n].attrs \ DOMAIN InitialAttributes :
                   HasNamespace(k, cfg.AttributeNamespace)
             /\ \A k \in DOMAIN InitialAttributes :
                   k \in DOMAIN OutSpans[n].attrs
                   /\ OutSpans[n].attrs[k] = InitialAttributes[k]

C29_Witness ==
    /\ Done
    /\ \E n \in 1..Len(OutSpans) :
          /\ "ai.category" \in DOMAIN OutSpans[n].attrs
          /\ OutSpans[n].attrs["ai.category"] = Str("database_error")
          /\ "ai.confidence" \in DOMAIN OutSpans[n].attrs
          /\ OutSpans[n].attrs["category"] = Str("http")

\* C30: an item whose ExtractEntities call succeeded carries one attribute
\* {namespace}{key} for every key of the result, the array-valued ones included,
\* and likewise for ClassifyError.
C30_EveryResultKeyWritten ==
    \A i \in 1..Len(attrs) :
       /\ (i \in DOMAIN extCall /\ extCall[i].st = "ok") =>
             \A k \in DOMAIN ExtractorOutput :
                (cfg.AttributeNamespace \o k) \in DOMAIN attrs[i]
       /\ (i \in DOMAIN clsCall /\ clsCall[i].st = "ok") =>
             \A k \in DOMAIN ClassifierOutput :
                (cfg.AttributeNamespace \o k) \in DOMAIN attrs[i]

\* tasks that have entered the channel: queued, held by a worker, or done
Enqueued == QueuedIds \cup HeldIds \cup hist.done

\* C26: the channel never holds more than numWorkers * 10 tasks, and a submit
\* that has reached its send (blocked on a full channel or not) gets its task
\* into the channel.
C26_SubmitBlocksWhenFull ==
    /\ [](pool.created => Len(pool.taskChan) <= pool.numWorkers * QueueFactor)
    /\ \A k \in 1..BurstTasks :
          (pc = "burst_send" /\ ~pool.closed /\ hist.pending.id = k) ~> (pos > k)

C26_Witness ==
    /\ pc = "burst_send"
    /\ ~pool.closed
    /\ Len(pool.taskChan) = pool.numWorkers * QueueFactor
    /\ hist.pending.id \notin Enqueued

\* C27: once the pool is closed no further task enters the channel (a submit
\* made after close panics in its send), and the tasks that had entered it are
\* all executed, after which every worker has left its loop.
C27_CloseDrainsAndStops ==
    /\ [][pool.closed => Enqueued' \subseteq Enqueued]_vars
    /\ [](pc = "panic" => hist.pending.id \notin Enqueued)
    /\ pool.closed ~>
          \/ pc = "panic"
          \/ /\ pool.taskChan = <<>>
             /\ hist.fnReturned = Enqueued
             /\ hist.done = Enqueued
             /\ \A w \in Workers : worker[w].pc = "exit"

C27_Witness ==
    /\ pool.closed
    /\ pc # "panic"
    /\ Len(pool.taskChan) >= 2
    /\ \E w \in Workers : worker[w].pc = "fn"

\* the pool of a parallel Consume call: closed on return, with nothing queued
\* and nothing running
ConsumeStopsPool ==
    (Done /\ pool.created) =>
       /\ pool.closed
       /\ pool.taskChan = <<>>
       /\ pool.wg = 0
       /\ \A w \in Workers : worker[w].pc \in {"recv", "exit"}

\* C21: Get and Put of concurrent callers behave as in some sequential order
\* of the operations; in a sequential order a Get removes only an entry it
\* found expired, so the removal a Get makes never takes an unexpired entry.
C21_GetRemovesOnlyExpired ==
    [][\A c \in Callers :
          (rt.call[c].pc = "remove" /\ rt'.call[c].pc = "miss_load") =>
             LET i == CacheIndex(rt.cache, createKey(rt.call[c].input), 1)
             IN i # 0 => rt.now > rt.cache[i].expiresAt]_vars

\* C22: with a cache, a call that finds an entry for its feature record that
\* has not expired returns the map of that entry without invoking the module;
\* a call that invokes the module had no cache, found no entry or found an
\* expired one.
C22_HitSkipsModule ==
    /\ [](\A c \in Callers :
            /\ rt.call[c].hit =>
                  /\ ~rt.call[c].invoked
                  /\ rt.call[c].err = "nil"
                  /\ rt.call[c].found /\ ~rt.call[c].expired
                  /\ rt.call[c].result = rt.call[c].entry.result
            /\ rt.call[c].invoked =>
                  (~rt.enabled \/ ~rt.call[c].found \/ rt.call[c].expired))
    /\ [][\A c \in Callers :
            (rt'.call[c].n = rt.call[c].n + 1 /\ rt.enabled) =>
               LET i == CacheIndex(rt.cache, createKey(rt'.call[c].input), 1)
               IN i # 0 => (rt'.call[c].found /\ rt'.call[c].entry = rt.cache[i])]_vars
    /\ [][\A c \in Callers :
            (rt.call[c].pc = "check" /\ rt'.call[c].pc # "check"
               /\ rt.now <= rt.call[c].entry.expiresAt) =>
               rt'.call[c].pc = "hit_load"]_vars

C22_Witness ==
    /\ rt.enabled
    /\ \E c \in Callers :
          /\ rt.call[c].pc = "done" /\ rt.call[c].hit /\ ~rt.call[c].invoked
          /\ rt.call[c].result.services # 0
          /\ rt.invoked[createKey(rt.call[c].input)] = 1

\* C23: however often and from however many callers the same feature record
\* is submitted, the module is invoked for it at most as many times as the
\* cache has slots.
C23_AtMostCInvocations ==
    \A k \in CacheKeys : rt.invoked[k] <= ModelCacheSize

\* C24: a Get that finds an entry whose expiration lies before the time of its
\* check reports a miss and leaves the key out of the cache; a call that
\* returns a hit has found its entry unexpired.
C24_ExpiredNeverHit ==
    /\ [](\A c \in Callers :
            /\ rt.call[c].hit => (rt.call[c].found /\ ~rt.call[c].expired)
            /\ (rt.call[c].expired /\ rt.call[c].pc = "done") =>
                  (~rt.call[c].hit /\ rt.call[c].invoked))
    /\ [][\A c \in Callers :
            (rt.call[c].pc = "check" /\ rt'.call[c].pc # "check") =>
               (rt'.call[c].expired <=> rt.now > rt.call[c].entry.expiresAt)]_vars
    /\ [][\A c \in Callers :
            (rt.call[c].pc = "remove" /\ rt'.call[c].pc # "remove") =>
               CacheIndex(rt'.cache, createKey(rt.call[c].input), 1) = 0]_vars

C24_Witness ==
    \E c \in Callers :
       /\ rt.call[c].pc = "done"
       /\ rt.call[c].found /\ rt.call[c].expired
       /\ ~rt.call[c].hit /\ rt.call[c].invoked

\* C25: what a Get returns on a hit is the value the result had when it was
\* Put, whatever the caller of Put has done to its map and to the arrays
\* nested in it since.
C25_PutStoresDeepCopy ==
    [][\A c \in Callers :
          (rt.call[c].pc = "hit_store" /\ rt'.call[c].pc = "done") =>
             Deref(rt'.call[c].result, rt'.heap) = rt.call[c].entry.snap]_vars

\* C28: a module call that has run for more than timeout_ms does not return a
\* result: it ends with TimeoutError.
C28_TimeoutCancelsCall ==
    [][\A c \in Callers :
          (rt.call[c].pc = "invoke" /\ rt'.call[c].pc # "invoke"
             /\ rt.now - rt.call[c].since > TimeoutTicks) =>
             rt'.call[c].err = "TimeoutError"]_vars

\* C31: an item for which ClassifyError was called, or that carries the
\* classifier's category, is a span with status ERROR or a log record of
\* severity number 17 or more, under a configuration with error_classification.
C31_ClassifierOnlyForErrors ==
    \A i \in 1..Len(attrs) :
       ((i \in DOMAIN clsCall /\ clsCall[i].st # "none")
           \/ (cfg.AttributeNamespace \o "category") \in DOMAIN attrs[i]) =>
          /\ cfg.ErrorClassification
          /\ \/ cfg.signal = "traces" /\ td[i].status = "Error"
             \/ cfg.signal = "logs" /\ td[i].severity >= 17

C31_Witness ==
    /\ Done
    /\ cfg.ErrorClassification
    /\ \E i \in Ids : \E j \in Ids :
          /\ clsCall[i].st = "ok" /\ clsCall[j].st = "none"
          /\ \/ cfg.signal = "traces" /\ td[i].status = "Error" /\ td[j].status = "Ok"
             \/ cfg.signal = "logs" /\ td[i].severity = 17 /\ td[j].severity = 9

\* C32: when the same span has been taken through the pipeline twice, with
\* result caches and without an inference error, the second run has written
\* the same namespaced keys with the same values as the first.
C32_IdempotentEnrichment ==
    (pc = "done" /\ ~rt.failed) => rt.written[2] = rt.written[1]

\* C33 as claimed: after Close has returned every result cache is empty, so
\* no entry stored before the shutdown can be returned by a later lookup.
C33_CachesClearedOnClose ==
    (rt.impl \in Impls /\ rt.close.pc = "done") => \A k \in Kinds : rt.cache[k] = <<>>

\* C39 as claimed: no inference call runs on an instance that Close has
\* released or on a field Close has set to nil, and a call that is made after
\* Close returned and finds no cached answer fails with model-not-loaded.
C39_NoCallOnReleasedInstance ==
    \A c \in Callers :
       /\ (rt.impl \in Impls /\ rt.call[c].pc = "invoke") =>
             /\ rt.call[c].inst # 0
             /\ rt.call[c].inst \notin rt.close.released
       /\ (rt.impl \in Impls /\ rt.call[c].pc = "call") => rt.close.pc # "done"

\* C34 as claimed: every span kept by the sampling pass lies in an output
\* resource group whose attribute map is that of the span's input resource
\* and in a scope with the input scope's name and version, so spans of
\* resources with different attribute maps never share an output group.
C34_GroupedUnderOwnResource ==
    (Done /\ SamplingPass(cfg)) =>
       \A r \in 1..Len(Out) : \A q \in 1..Len(Out[r].scopes) :
          \A k \in 1..Len(Out[r].scopes[q].spans) :
             LET it == td[Out[r].scopes[q].spans[k].id]
             IN /\ Out[r].resource = it.resource
                /\ Out[r].scopes[q].scope.name = it.scope.name
                /\ Out[r].scopes[q].scope.version = it.scope.version

\* the workers that hold a task they have received and not yet finished
Holding == {w \in Workers : worker[w].pc \in {"fn", "cb", "wgdone"}}

\* C35: in parallel mode no item is the subject of two pool tasks, neither
\* queued nor held by workers, so one worker alone runs its classification
\* and then its entity extraction: where both succeed the item carries the
\* extractor's value under the key both results write.
C35_OneTaskPerItem ==
    (cfg.EnableParallelProcessing /\ pool.created) =>
       /\ \A k \in 1..Len(pool.taskChan) : \A l \in 1..Len(pool.taskChan) :
             pool.taskChan[k].item = pool.taskChan[l].item => k = l
       /\ \A w1 \in Holding : \A w2 \in Holding :
             worker[w1].task.item = worker[w2].task.item => w1 = w2
       /\ \A w \in Holding : \A k \in 1..Len(pool.taskChan) :
             worker[w].task.item # pool.taskChan[k].item
       /\ \A i \in 1..Len(attrs) :
             (clsCall[i].st = "ok" /\ extCall[i].st = "ok") =>
                attrs[i][cfg.AttributeNamespace \o "confidence"] = ExtractorOutput.confidence

\* two workers at once: one has enriched its item with both results, the
\* other is about to run the processor on another item
C35_Witness ==
    /\ cfg.EnableParallelProcessing /\ pool.created
    /\ \E w1 \in Holding : \E w2 \in Holding :
          /\ worker[w1].pc = "cb" /\ worker[w2].pc = "fn"
          /\ worker[w1].task.item # worker[w2].task.item
          /\ clsCall[worker[w1].task.item].st = "ok"
          /\ extCall[worker[w1].task.item].st = "ok"

\* C36: under a fair scheduler and with per-item tasks that return, the
\* parallel processing of a Consume call returns (its batch is ready to be
\* forwarded), for max_parallel_workers of 1, 0 and -1 and for a batch of more
\* items than the channel and the workers hold together: the submit loop and
\* the barrier do not block for ever.
C36_ParallelConsumeTerminates == <>(pc = "forward")

\* the call returned on a batch that did not fit into the channel and the worker
C36_Witness ==
    /\ pc = "forward"
    /\ pool.created /\ pool.closed
    /\ N > pool.capacity + pool.numWorkers
    /\ hist.done = Ids

\* C37: the batch a finished Consume forwarded is the one the serial loops
\* compute from the same batch, configuration, module answers and draws:
\* parallel mode, whatever the interleaving of its workers, forwards the same
\* items with the same attributes in the same groups and order as serial mode.
C37_ParallelEqualsSerial ==
    Done => Out = RefProcessed([cfg EXCEPT !.EnableParallelProcessing = FALSE])

\* a parallel run of two spans, both enriched by workers, then sampled
C37_Witness ==
    /\ Done /\ N = 2
    /\ cfg.EnableParallelProcessing /\ SamplingPass(cfg)
    /\ clsCall[1].st = "ok" /\ extCall[2].st = "ok"
    /\ hist.done = Ids
    /\ verdict[1] = "keep"
    /\ Len(OutSpans) >= 1

\* C38 as claimed: an entry that has not expired leaves the cache only by a
\* Put (replacement under its key, or eviction of the least recently used
\* entry); no step of a Get takes it out, so what a Put stored stays
\* retrievable until it expires or is evicted.
C38_FreshEntrySurvivesGet ==
    [][\A i \in 1..Len(rt.cache) :
          rt.now <= rt.cache[i].expiresAt =>
             \/ \E j \in 1..Len(rt'.cache) : rt'.cache[j] = rt.cache[i]
             \/ \E c \in Callers : rt.call[c].pc = "put" /\ rt'.call[c].pc = "done"]_vars

\* C40 as claimed: whatever was converted before, AttributesToMap(m) returns
\* exactly the pairs of m; the cache never answers with another map's pairs.
C40_ConversionReturnsOwnPairs ==
    rt.n > 0 => rt.output = rt.input
====
